---------------------------- MODULE Spec2Model ----------------------------
(***************************************************************************)
(* Card-art prompt pipeline of services/image-gen: the prompt composition  *)
(* and variety engine (prompts.py, composable_themes.py,                   *)
(* composable_visuals.py), the prompt audit (audit_prompts.py), the        *)
(* ComfyUI client (generator.py), the batch runs (batch.py,                *)
(* regenerate_all.py), the HTTP server (server.py) and the Groq pools      *)
(* (groq_pools.py).  Each part has its own specification over the shared   *)
(* variables; a specification holds the variables of the other parts       *)
(* fixed.                                                                  *)
(*                                                                         *)
(* Strings are TLC strings; a character is a string of length one and is   *)
(* read with SubSeq(s, i, i).  A generator that draws from the process-wide*)
(* random source takes the position n of the next draw and returns the     *)
(* record [s |-> its string, n |-> the position after its last draw], so   *)
(* draws are consumed in the order the code makes them.                    *)
(***************************************************************************)
EXTENDS Integers, Sequences, FiniteSets, TLC

VARIABLES
    req,            \* the call being made: [op |-> ..., and its arguments]
    out,            \* what the call returned (None before it returns), or its log
    pc,             \* "call" before the operation ran, "done" after it, or its step
    rng,            \* the shared random source: [a, b] fix its stream, k draws were made
    config_file,    \* parsed content of prompts.yaml (a mapping)
    config_cache,   \* prompts.py _config_cache: None until _load_config ran
    threads,        \* generator.py: each thread inside CardArtGenerator.generate
    sockets,        \* the websocket each thread opened: its unread messages, or closed
    comfy,          \* the ComfyUI server: its queue of prompts and what it executed
    files,          \* the files of the generated and the public cards directories
    lru,            \* groq_pools.py: the lru_cache of each pool function
    groq_contacts,  \* number of requests sent to the Groq API
    api_key,        \* groq_pools.py GROQ_API_KEY: whether the environment set it
    seen            \* what each pool call returned since the last refresh_pools()

None == [none |-> TRUE]

\* the variables of the services around the prompt functions
service == <<threads, sockets, comfy, files, lru, groq_contacts, api_key, seen>>

vars == <<req, out, pc, rng, config_file, config_cache, service>>

\* no service runs: the state of a process that only builds prompts
ServiceIdle ==
    /\ threads = <<>>
    /\ sockets = <<>>
    /\ comfy = None
    /\ files = {}
    /\ lru = <<>>
    /\ groq_contacts = 0
    /\ api_key = FALSE
    /\ seen = <<>>

-----------------------------------------------------------------------------
(* Bounds of the model.                                                    *)

\* seeds of the random stream: rng.a in 0..MaxSeed
MaxSeed == 3
\* steps of the random stream: rng.b in 0..MaxStep
MaxStep == 2
\* longest text given to vary_phrase, in tokens
MaxTokens == 2

-----------------------------------------------------------------------------
(* Python str and list operations used by the code.                        *)

UPPERCASE == "ABCDEFGHIJKLMNOPQRSTUVWXYZÉ"
LOWERCASE == "abcdefghijklmnopqrstuvwxyzé"

Char(s, i) == SubSeq(s, i, i)

Chars(s) == {Char(s, i) : i \in 1..Len(s)}

\* str.isupper() of one character
IsUpper(c) == c \in Chars(UPPERCASE)

\* the lower-case form of each upper-case character, and the reverse
LowerOf == [c \in Chars(UPPERCASE) |->
               Char(LOWERCASE, CHOOSE i \in 1..Len(UPPERCASE) : Char(UPPERCASE, i) = c)]

UpperOf == [c \in Chars(LOWERCASE) |->
               Char(UPPERCASE, CHOOSE i \in 1..Len(LOWERCASE) : Char(LOWERCASE, i) = c)]

LowerChar(c) == IF c \in DOMAIN LowerOf THEN LowerOf[c] ELSE c

UpperChar(c) == IF c \in DOMAIN UpperOf THEN UpperOf[c] ELSE c

RECURSIVE LowerRange(_, _, _)
\* the characters lo..hi of s, each in lower case
LowerRange(s, lo, hi) ==
    IF lo > hi THEN ""
    ELSE IF lo = hi THEN LowerChar(Char(s, lo))
    ELSE LET mid == (lo + hi) \div 2
         IN  LowerRange(s, lo, mid) \o LowerRange(s, mid + 1, hi)

\* str.lower()
Lower(s) == LowerRange(s, 1, Len(s))

RECURSIVE Upper(_)
\* str.upper()
Upper(s) ==
    IF s = "" THEN "" ELSE UpperChar(Char(s, 1)) \o Upper(Tail(s))

\* str.capitalize(): first character upper-cased, the rest lower-cased
Capitalize(s) ==
    IF s = "" THEN "" ELSE UpperChar(Char(s, 1)) \o Lower(Tail(s))

\* the characters str.split() with no argument splits on
Whitespace == {" ", "\t", "\n"}

\* whether a word of s starts at position i
WordStart(s, i) ==
    /\ Char(s, i) \notin Whitespace
    /\ i = 1 \/ Char(s, i - 1) \in Whitespace

\* the position after the word that starts at i
WordEnd(s, i) ==
    CHOOSE j \in (i + 1)..(Len(s) + 1) :
        /\ j = Len(s) + 1 \/ Char(s, j) \in Whitespace
        /\ \A k \in i..(j - 1) : Char(s, k) \notin Whitespace

RECURSIVE SplitRange(_, _, _)
\* the words of s that start in lo..hi, in order
SplitRange(s, lo, hi) ==
    IF lo > hi THEN <<>>
    ELSE IF lo = hi
    THEN IF WordStart(s, lo) THEN <<SubSeq(s, lo, WordEnd(s, lo) - 1)>> ELSE <<>>
    ELSE LET mid == (lo + hi) \div 2
         IN  SplitRange(s, lo, mid) \o SplitRange(s, mid + 1, hi)

\* str.split(): the maximal runs of non-whitespace characters, in order
Split(s) == SplitRange(s, 1, Len(s))

RECURSIVE JoinRange(_, _, _, _)
\* parts[lo..hi] with sep between them
JoinRange(sep, parts, lo, hi) ==
    IF lo > hi THEN ""
    ELSE IF lo = hi THEN parts[lo]
    ELSE LET mid == (lo + hi) \div 2
         IN  JoinRange(sep, parts, lo, mid) \o sep \o JoinRange(sep, parts, mid + 1, hi)

\* sep.join(parts)
Join(sep, parts) == JoinRange(sep, parts, 1, Len(parts))

\* str.rstrip(chars): s up to its last character that is not in chars
RStrip(s, chars) ==
    LET j == CHOOSE j \in 0..Len(s) :
                 /\ j = 0 \/ Char(s, j) \notin Chars(chars)
                 /\ \A k \in (j + 1)..Len(s) : Char(s, k) \in Chars(chars)
    IN  SubSeq(s, 1, j)

\* sub in s, for strings
Contains(s, sub) ==
    \E i \in 1..(Len(s) - Len(sub) + 1) : SubSeq(s, i, i + Len(sub) - 1) = sub

RECURSIVE Replace(_, _, _)
\* str.replace(old, new) for a non-empty old
Replace(s, old, new) ==
    IF Len(s) < Len(old) THEN s
    ELSE IF SubSeq(s, 1, Len(old)) = old
         THEN new \o Replace(SubSeq(s, Len(old) + 1, Len(s)), old, new)
         ELSE Char(s, 1) \o Replace(Tail(s), old, new)

-----------------------------------------------------------------------------
(* The random source.  random.random() is Draw(n) / RandMod in [0, 1); the   *)
(* stream of draws is fixed by the generator state rng.                    *)

RandMod == 60
SeedStride == 17
StepStride == 19

Draw(n) == (rng.a * SeedStride + rng.b * StepStride * n) % RandMod

\* random.random() <= chance
RandomAtMost(n, chance) == Draw(n) * 100 <= chance * RandMod

\* random.random() < chance, chance given in percent
RandomBelow(n, chance) == Draw(n) * 100 < chance * RandMod

\* random.choice(pool): pool[floor(random() * len(pool))]
Choice(pool, n) == pool[((Draw(n) * Len(pool)) \div RandMod) + 1]

Remove(seq, i) == SubSeq(seq, 1, i - 1) \o SubSeq(seq, i + 1, Len(seq))

RECURSIVE Sample(_, _, _)
\* random.sample(pool, k): k elements at distinct positions, in draw order
Sample(pool, k, n) ==
    IF k = 0 THEN <<>>
    ELSE LET i == ((Draw(n) * Len(pool)) \div RandMod) + 1
         IN  <<pool[i]>> \o Sample(Remove(pool, i), k - 1, n + 1)

-----------------------------------------------------------------------------
(* Phrase pools.                                                           *)

\* prompts.py:41-57
SYNONYM_MAP ==
    [ sensual |->
        << "sultry", "voluptuous", "alluring", "seductive", "enticing", "provocative" >>,
      intimate |->
        << "private", "personal", "close", "tender", "passionate", "secret" >>,
      erotic |->
        << "arousing", "stimulating", "titillating", "risqué", "steamy", "heated" >>,
      seductive |->
        << "tempting", "captivating", "beguiling", "enchanting", "irresistible" >>,
      alluring |->
        << "enticing", "appealing", "magnetic", "bewitching", "fascinating" >>,
      skin |->
        << "flesh", "body", "form", "figure", "curves" >>,
      bare |->
        << "exposed", "uncovered", "naked", "revealed", "stripped" >>,
      curves |->
        << "contours", "silhouette", "figure", "form", "shape" >>,
      soft |->
        << "gentle", "delicate", "supple", "tender", "smooth" >>,
      warm |->
        << "heated", "flushed", "glowing", "radiant", "burning" >>,
      touch |->
        << "caress", "stroke", "graze", "brush", "contact" >>,
      desire |->
        << "longing", "yearning", "craving", "hunger", "passion" >>,
      passion |->
        << "ardor", "fervor", "intensity", "fire", "heat" >>,
      beautiful |->
        << "gorgeous", "stunning", "exquisite", "ravishing", "breathtaking" >>,
      atmosphere |->
        << "ambiance", "mood", "aura", "vibe", "feeling" >> ]

\* prompts.py:105-155
FALLBACK_VISUAL_POOLS ==
    [ FALLBACK_VISUAL_ADJECTIVES |->
        << "sultry", "intimate", "seductive", "alluring", "erotic", "sensuous",
           "tantalizing", "provocative", "heated", "mystical" >>,
      FALLBACK_VISUAL_NOUNS |->
        << "arcane wisps", "power", "runes", "forces", "sparks", "aura", "essence",
           "light", "sigils", "touch" >>,
      FALLBACK_VISUAL_VERBS |->
        << "dancing around", "pulsing through", "gliding along", "drawn to",
           "sparking near", "wrapping", "pooling at", "playing on", "burning with",
           "awakening" >>,
      FALLBACK_VISUAL_TARGETS |->
        << "bare skin", "heated flesh", "exposed curves", "trembling form",
           "flushed body", "her figure", "her core", "bare outline", "carnal hunger",
           "hidden desires" >> ]

\* prompts.py:180-189
FRAMING_INTROS ==
    << "Framed with", "Composed with", "Captured using", "Shot with", "Featuring",
       "Emphasizing", "Highlighting", "Focused on" >>

\* prompts.py:221-230
LIGHTING_INTROS ==
    << "Lit with", "Bathed in", "Illuminated by", "Glowing with", "Washed in",
       "Drenched in", "Caressed by", "Embraced by" >>

\* prompts.py:232-241
MOOD_CONNECTORS ==
    << "creating", "evoking", "establishing", "generating", "producing", "conjuring",
       "summoning", "inducing" >>

\* prompts.py:398-398
COLOR_CONNECTORS ==
    << "with", "and", "featuring", "showing", "plus" >>

\* prompts.py:381-387
ELEMENT_COLOR_PRIMARIES ==
    [ physical |->
        << "steel grey", "gunmetal", "iron", "silver", "platinum", "chrome" >>,
      fire |->
        << "orange", "crimson", "scarlet", "vermillion", "ruby", "amber" >>,
      ice |->
        << "cyan", "arctic", "azure", "powder blue", "glacial", "crystalline" >>,
      lightning |->
        << "electric blue", "violet", "indigo", "magenta", "ultraviolet", "plasma" >>,
      void |->
        << "deep purple", "obsidian", "midnight", "dark plum", "cosmic", "abyssal" >> ]

\* prompts.py:389-395
ELEMENT_COLOR_ACCENTS ==
    [ physical |->
        << "metallic sheen", "chrome highlights", "polished gleam", "shadow" >>,
      fire |->
        << "gold blaze", "ember glow", "sparks", "heat shimmer" >>,
      ice |->
        << "silver shimmer", "white frost", "diamond sparkle", "snow" >>,
      lightning |->
        << "white sparks", "azure crackle", "flash", "electricity" >>,
      void |->
        << "violet shadow", "black depths", "darkness", "ink" >> ]

\* prompts.py:412-493
ELEMENT_ATMOSPHERE_ADJ ==
    [ physical |->
        << "dynamic", "powerful", "forceful", "impactful", "kinetic", "intense",
           "brutal", "raw", "visceral", "striking" >>,
      fire |->
        << "intense", "burning", "passionate", "scorching", "fierce", "heated",
           "blazing", "fervent", "consuming", "smoldering", "wild", "untamed",
           "incendiary", "lustful", "searing" >>,
      ice |->
        << "cold", "serene", "crystalline", "frigid", "tranquil", "pristine",
           "frozen", "calm", "glittering", "arctic", "shimmering", "still", "glacial",
           "peaceful", "sparkling" >>,
      lightning |->
        << "energetic", "crackling", "charged", "electrifying", "volatile", "surging",
           "shocking", "pulsing", "alive", "sparking", "dynamic", "thrilling",
           "voltaic", "intense", "buzzing" >>,
      void |->
        << "mysterious", "otherworldly", "ominous", "eldritch", "haunting",
           "unfathomable", "cosmic", "eerie", "infinite", "abyssal", "unknowable",
           "strange", "spectral", "dark", "limitless" >> ]

\* composable_themes.py:13-95
ATTACK_POOLS ==
    [ ATTACK_IMPLEMENTS |->
        << "leather whip", "silk crop", "velvet flogger", "riding crop",
           "multi-tail flogger", "braided cord", "satin ribbon", "studded paddle",
           "feathered switch", "chain leash" >>,
      ATTACK_ACTIONS |->
        << "striking", "descending", "swinging", "cracking", "slicing through air",
           "in motion", "raised high", "poised to strike", "mid-swing", "lashing out" >>,
      ATTACK_VISUALS |->
        << "blurred motion", "impact ripples", "leather gleaming", "metal glinting",
           "fabric flowing", "shadows cast", "light catching edges", "dynamic arc",
           "tension visible", "power evident" >>,
      ATTACK_TEXTURES |->
        << "dark leather", "slick latex", "studded leather", "chrome finish",
           "vinyl sheen", "polished metal", "black satin", "red velvet",
           "supple hide", "glossy PVC", "woven cord", "tooled leather", "steel rings",
           "dark lace", "mesh fabric", "buckled straps" >>,
      ATTACK_MARKS |->
        << "red marks on skin", "flushed flesh", "rosy welts", "heated stripes",
           "passion marks", "love bites visible", "skin flushed pink",
           "traces of pleasure", "evidence of intensity", "warmth spreading" >>,
      ATTACK_ELEMENTS |->
        << "chains glinting", "buckles catching light", "restraints visible",
           "collar prominent", "cuffs dangling", "rings gleaming", "hooks and eyes",
           "D-rings arranged", "straps crossing", "hardware accents" >> ]

\* composable_themes.py:100-181
SKILL_POOLS ==
    [ SKILL_SYMBOLS |->
        << "arcane sigil", "mystic rune", "sacred glyph", "occult symbol",
           "ritual circle", "power seal", "binding mark", "arcane mark",
           "charm inscription", "hex pattern" >>,
      SKILL_PLACEMENTS |->
        << "glowing on skin", "floating nearby", "traced in light", "hovering above",
           "inscribed on flesh", "materializing", "pulsing gently", "fading in/out",
           "rotating slowly", "orbiting form" >>,
      SKILL_EFFECTS |->
        << "ethereal wisps", "arcane motes", "sparkle trails", "light particles",
           "energy threads", "luminous dust", "gleaming sparks", "soft radiance",
           "gentle aura", "subtle shimmer" >>,
      SKILL_BODY_ART |->
        << "womb tattoo", "lumbar tattoo", "hip markings", "thigh patterns",
           "shoulder sigil", "sternum inscription", "spine design", "navel accent",
           "collarbone mark", "ankle band", "bicep rune", "rib inscription",
           "sacral glyph", "calf pattern", "forearm script" >>,
      SKILL_GLOWS |->
        << "soft pink glow", "violet luminescence", "warm amber radiance",
           "cool blue shimmer", "rose gold gleam", "silver luminescence",
           "pearl iridescence", "champagne sparkle", "lavender haze", "coral warmth" >>,
      SKILL_FLOWS |->
        << "energy flowing", "magic swirling", "power cascading", "essence drifting",
           "force rippling", "light streaming", "aura flickering", "spell weaving",
           "enchantment spreading", "charm emanating" >> ]

\* composable_themes.py:186-262
POWER_POOLS ==
    [ POWER_AURAS |->
        << "intense aura", "blazing corona", "pulsing field", "radiating energy",
           "surrounding glow", "enveloping light", "crackling nimbus",
           "swirling vortex", "emanating waves", "projecting force" >>,
      POWER_MANIFESTATIONS |->
        << "manifesting as flame", "coalescing into form", "crystallizing",
           "solidifying", "taking shape", "becoming visible", "materializing",
           "condensing", "gathering", "forming" >>,
      POWER_INTENSITIES |->
        << "overwhelming", "intoxicating", "mesmerizing", "hypnotic", "entrancing",
           "captivating", "spellbinding", "all-consuming", "irresistible",
           "commanding" >>,
      POWER_POSES |->
        << "confident stance", "commanding posture", "dominance shown",
           "confident poise", "powerful pose", "regal carriage", "imperious attitude",
           "authoritative presence", "masterful poise", "supreme confidence" >>,
      POWER_EXPRESSIONS |->
        << "knowing smile", "confident smirk", "intense gaze", "piercing look",
           "commanding stare", "seductive glance", "enigmatic expression",
           "subtle satisfaction", "quiet dominance", "controlled passion" >>,
      POWER_FEATURES |->
        << "body glistening", "skin luminous", "form radiant", "figure glowing",
           "silhouette backlit", "curves highlighted", "contours defined",
           "shape accentuated", "presence commanding", "beauty amplified" >> ]

\* composable_themes.py:355-431
CROP_POOLS ==
    [ CROP_VERBS |->
        << "Cropped", "Framed", "Composed", "Captured", "Arranged", "Positioned",
           "Angled", "Shot", "Presented", "Rendered" >>,
      CROP_ADVERBS |->
        << "suggestively", "provocatively", "intimately", "artfully", "strategically",
           "teasingly", "alluringly", "sensually", "dynamically", "dramatically" >>,
      CROP_FOCUS_PARTS |->
        << "curves", "contours", "silhouette", "form", "skin", "exposure", "shape",
           "figure", "lines", "angles" >>,
      CROP_FOCUS_AREAS |->
        << "body", "shoulder", "waist", "hip", "thigh", "back", "torso", "leg",
           "chest", "neck" >>,
      CROP_EFFECT_VERBS |->
        << "maximizing", "emphasizing", "creating", "highlighting", "drawing",
           "revealing", "teasing", "accentuating", "capturing", "showcasing" >>,
      CROP_EFFECT_TARGETS |->
        << "sensual impact", "natural curves", "intimate tension", "bare skin",
           "the form", "enticing details", "partial view", "body contours",
           "exposed areas", "erotic angles" >> ]

\* composable_themes.py:458-508
MOOD_PHRASE_POOLS ==
    [ MOOD_INTROS |->
        << "Atmosphere:", "Evoking", "Radiating", "Suffused with", "Heavy with",
           "Dripping with", "Exuding", "Charged with", "Alive with", "Burning with" >>,
      MOOD_ADJECTIVES |->
        << "raw", "primal", "fierce", "tender", "intense", "smoldering", "aching",
           "desperate", "languid", "electric" >>,
      MOOD_NOUNS |->
        << "desire", "passion", "longing", "hunger", "tension", "anticipation",
           "abandon", "surrender", "dominance", "ecstasy" >>,
      MOOD_QUALITIES |->
        << "radiating", "building", "consuming", "overwhelming", "simmering",
           "erupting", "spreading", "deepening", "intensifying", "cresting" >> ]

\* composable_themes.py:535-585
COMPOSITION_POOLS ==
    [ COMPOSITION_TECHNIQUES |->
        << "framing", "arrangement", "layout", "positioning", "staging", "placement",
           "composition", "orientation", "alignment", "spacing" >>,
      COMPOSITION_STYLES |->
        << "dynamic", "balanced", "asymmetric", "centered", "diagonal", "radial",
           "layered", "floating", "grounded", "flowing" >>,
      COMPOSITION_FOCUSES |->
        << "figure", "form", "silhouette", "curves", "subject", "body", "pose",
           "gesture", "expression", "presence" >>,
      COMPOSITION_METHODS |->
        << "using", "via", "through", "with", "employing", "applying", "featuring",
           "incorporating", "utilizing", "showcasing" >> ]

\* composable_themes.py:608-660
OPENING_POOLS ==
    [ OPENING_ARTICLES |->
        << "A", "An", "The", "This", "Here", "Behold", "Witness", "See", "Observe",
           "Watch" >>,
      OPENING_ADJECTIVES |->
        << "intimate", "sensual", "erotic", "alluring", "seductive", "passionate",
           "tantalizing", "provocative", "sultry", "heated", "tender", "fierce" >>,
      OPENING_NOUNS |->
        << "moment", "scene", "vision", "glimpse", "dance", "display", "revelation",
           "encounter", "awakening", "surrender" >>,
      OPENING_VERBS |->
        << "unfolds", "reveals", "captures", "shows", "presents", "displays",
           "manifests", "emerges", "beckons", "invites" >> ]

\* composable_visuals.py:14-91
BASE_POOLS ==
    [ BODY_PARTS |->
        << "fingertips", "hands", "palms", "lips", "tongue", "neck", "shoulders",
           "spine", "hips", "thighs", "curves", "collarbone", "wrists", "ankles" >>,
      BODY_ACTIONS |->
        << "trailing", "gliding", "caressing", "brushing", "dancing", "tracing",
           "sliding", "pressing", "gripping", "exploring", "teasing", "grazing",
           "skimming", "wandering" >>,
      BODY_DIRECTIONS |->
        << "down", "across", "along", "over", "around", "beneath", "against", "up" >>,
      BODY_ADJECTIVES |->
        << "bare", "exposed", "naked", "smooth", "warm", "flushed", "glistening",
           "soft", "tender", "supple", "silken", "heated", "trembling", "receptive",
           "sensitive" >>,
      BODY_AREAS |->
        << "spine", "back", "shoulder", "thigh", "waist", "neck", "hip", "collarbone",
           "stomach", "chest", "arm", "leg", "side" >> ]

\* composable_visuals.py:98-380
CATEGORY_POOLS ==
    [ EMBRACE_VERBS |->
        << "wrapping gently around", "encircling", "enveloping", "holding",
           "cradling", "clasping" >>,
      EMBRACE_TARGETS |->
        << "bare waist", "naked hips", "exposed back", "warm body", "soft curves",
           "yielding form" >>,
      EMBRACE_DETAILS |->
        << "from behind", "possessively", "tenderly", "desperately", "intimately",
           "protectively" >>,
      TOUCH_GESTURE_PARTS |->
        << "finger", "palm", "hand", "thumb", "knuckles" >>,
      TOUCH_GESTURE_VERBS |->
        << "tracing", "resting against", "sliding along", "brushing", "grazing",
           "pressing", "lingering on" >>,
      TOUCH_AREAS |->
        << "collarbone", "inner thigh", "jawline", "hipbone", "shoulder",
           "lower back", "ribcage", "nape", "wrist", "sternum", "ankle", "earlobe" >>,
      PLEASURE_EXPRESSIONS |->
        << "parted lips", "closed eyes", "tilted head", "arched neck", "bitten lip",
           "flushed cheeks" >>,
      PLEASURE_ACTIONS |->
        << "exhaling softly", "gasping", "trembling", "shuddering", "writhing",
           "quivering" >>,
      PLEASURE_PROPS |->
        << "gripping sheets", "clutching pillow", "hand in hair", "fingers spread",
           "toes curling" >>,
      ECSTASY_POSES |->
        << "arched back", "thrown head", "tensed body", "curled toes",
           "splayed fingers", "stretched limbs" >>,
      ECSTASY_STATES |->
        << "in bliss", "overcome", "surrendered", "lost in sensation", "at peak",
           "transcendent" >>,
      SEDUCE_LOOKS |->
        << "bedroom eyes", "heavy-lidded gaze", "knowing smile", "inviting look",
           "smoldering stare" >>,
      SEDUCE_GESTURES |->
        << "finger on lips", "hair toss", "shoulder reveal", "beckoning finger",
           "slow blink" >>,
      SEDUCE_ACTIONS |->
        << "drawing closer", "leaning in", "undoing button", "sliding strap",
           "lowering lashes" >>,
      TEASE_ACTIONS |->
        << "almost touching", "pulling away", "dangling just out of reach",
           "hovering close", "withdrawing" >>,
      TEASE_TARGETS |->
        << "lips", "exposed skin", "waiting body", "eager hands", "anticipating form" >>,
      FORBIDDEN_SETTINGS |->
        << "hidden alcove", "secret room", "shadowed corner", "locked chamber",
           "private sanctuary" >>,
      FORBIDDEN_MOODS |->
        << "illicit", "clandestine", "taboo", "dangerous", "secret", "transgressive" >>,
      FORBIDDEN_ACTS |->
        << "stolen moment", "forbidden touch", "secret liaison", "hidden passion",
           "covert embrace" >>,
      BONDAGE_MATERIALS |->
        << "silk", "rope", "leather", "chains", "velvet", "lace", "ribbon", "cord" >>,
      BONDAGE_LOCATIONS |->
        << "wrists", "ankles", "above head", "behind back", "to bedpost",
           "spread wide" >>,
      BONDAGE_STATES |->
        << "restrained", "bound", "secured", "immobilized", "helpless", "vulnerable" >>,
      POWER_POSITIONS |->
        << "standing over", "kneeling before", "pinned beneath", "held down",
           "looming above" >>,
      POWER_PROPS |->
        << "collar", "leash", "cuffs", "blindfold", "crop", "flogger" >>,
      FABRIC_ACTIONS |->
        << "sliding off", "falling open", "being removed", "barely covering",
           "clinging to", "slipping from" >>,
      FABRIC_STATES |->
        << "untied", "loosened", "askew", "disheveled", "revealing", "parted" >>,
      INTENSITY_VERBS |->
        << "consuming", "devouring", "claiming", "ravishing", "overwhelming",
           "possessing" >>,
      INTENSITY_TARGETS |->
        << "bare skin", "exposed flesh", "yielding body", "willing form",
           "receptive curves" >>,
      INTENSITY_MOODS |->
        << "desperate", "hungry", "ravenous", "insatiable", "fierce", "primal" >>,
      LIGHT_SOURCES |->
        << "candlelight", "moonlight", "firelight", "lamplight", "sunlight",
           "starlight", "torchlight", "glow", "radiance", "shimmer", "gleam",
           "luminance", "brilliance", "warmth", "haze" >>,
      LIGHT_ACTIONS |->
        << "caressing", "tracing", "kissing", "embracing", "illuminating",
           "highlighting", "painting", "touching", "gracing", "bathing", "warming",
           "gilding", "dappling", "falling on", "catching" >>,
      LIGHT_QUALITIES |->
        << "soft", "warm", "golden", "silver", "dim", "flickering", "gentle",
           "sensual", "intimate", "diffuse", "dramatic" >> ]

\* composable_visuals.py:725-786
MOOD_ADJECTIVES ==
    [ attack |->
        << "aggressive", "fierce", "violent", "brutal", "savage", "predatory",
           "vicious", "relentless", "merciless", "intense" >>,
      skill |->
        << "protective", "defensive", "watchful", "careful", "tactical", "guarded",
           "alert", "measured", "calculated", "steady" >>,
      power |->
        << "transcendent", "overwhelming", "radiating", "eternal", "ascending",
           "pulsing", "consuming", "dominant", "absolute", "infinite" >>,
      curse |->
        << "dark", "sinister", "malevolent", "corrupting", "infectious", "forbidden",
           "wicked", "profane", "tainted", "cursed" >>,
      status |->
        << "subtle", "quiet", "lingering", "ambient", "steady", "persistent",
           "understated", "gentle", "pervasive", "constant" >> ]

\* composable_visuals.py:788-849
MOOD_NOUNS ==
    [ attack |->
        << "passion", "fury", "violence", "dominance", "aggression", "hunger",
           "ferocity", "brutality", "savagery", "force" >>,
      skill |->
        << "allure", "grace", "beauty", "sensuality", "charm", "intimacy", "elegance",
           "poise", "finesse", "subtlety" >>,
      power |->
        << "pleasure", "lust", "desire", "power", "passion", "presence", "beauty",
           "sensuality", "allure", "ecstasy" >>,
      curse |->
        << "seduction", "pleasure", "desire", "lust", "temptation", "corruption",
           "darkness", "attraction", "hunger", "craving" >>,
      status |->
        << "allure", "desire", "attraction", "charm", "sensuality", "passion",
           "beauty", "grace", "magnetism", "appeal" >> ]

\* composable_visuals.py:873-889
SCENE_VERBS ==
    << "depicts", "reveals", "showcases", "presents", "displays", "captures",
       "illustrates", "manifests", "embodies", "expresses", "unveils", "portrays",
       "renders", "conjures", "evokes" >>

\* composable_visuals.py:891-906
SCENE_STRUCTURES ==
    << "This scene {verb} {content}", "Captivating {content}", "{content} unfolds",
       "Revealing {content}", "Witness {content}", "Behold {content}",
       "{content} manifests", "A vision {verb} {content}",
       "Observe {content} before you", "Intimately framed: {content}",
       "Here {verb} {content}", "Depicting {content}", "Showing {content}",
       "Featuring {content}" >>

\* composable_visuals.py:921-1050
STYLE_POOLS ==
    [ STYLE_ORIGINS |->
        << "anime", "visual novel", "gacha game", "doujin", "eroge", "bishojo",
           "light novel", "manga", "pixiv", "dakimakura" >>,
      STYLE_TYPES |->
        << "illustration", "CG", "splash art", "cover art", "key visual",
           "color page", "character art", "scene render", "portrait" >>,
      STYLE_MOODS |->
        << "sensual", "romantic", "erotic", "intimate", "seductive", "alluring",
           "provocative", "sultry", "passionate", "tender" >>,
      TECHNIQUE_VERBS |->
        << "blending", "shading", "rendering", "highlighting", "defining",
           "emphasizing", "capturing", "accentuating", "enhancing", "detailing" >>,
      TECHNIQUE_QUALITIES |->
        << "smooth", "soft", "exquisite", "dynamic", "masterful", "delicate",
           "careful", "rich", "fine", "atmospheric" >>,
      TECHNIQUE_SUBJECT_NOUNS |->
        << "skin", "curves", "contours", "proportions", "shadows", "highlights",
           "gradients", "linework", "silhouette", "form", "figure", "body" >>,
      TECHNIQUE_SUBJECT_MODS |->
        << "tones", "shading", "definition", "rendering", "detail", "texture", "flow",
           "weight" >>,
      TECHNIQUE_COMPLEMENT_NOUNS |->
        << "fabrics", "hair", "drape", "folds", "skin", "details", "mood", "features",
           "physics", "textures", "clothing", "expression" >>,
      TECHNIQUE_COMPLEMENT_MODS |->
        << "translucent", "flowing", "textile", "fabric", "exposed", "intimate",
           "sensual", "feminine", "delicate", "soft", "subtle", "natural" >>,
      TECHNIQUE_CONNECTORS |->
        << "and", "against", "with", "alongside", "," >> ]

NSFW_VISUAL_GENERATORS ==
    << <<"embrace", "compose_embrace_visual">>,
       <<"caress", "compose_embrace_visual">>,
       <<"touch", "compose_embrace_visual">>,
       <<"stroke", "compose_embrace_visual">>, <<"whisper", "_whisper_visual">>,
       <<"kiss", "_kiss_visual">>, <<"ecstasy", "compose_pleasure_visual">>,
       <<"pleasure", "compose_pleasure_visual">>,
       <<"desire", "compose_seduce_visual">>, <<"lust", "compose_seduce_visual">>,
       <<"passion", "compose_intensity_visual">>, <<"bliss", "_bliss_visual">>,
       <<"climax", "compose_pleasure_visual">>, <<"moan", "_moan_visual">>,
       <<"tempt", "compose_seduce_visual">>,
       <<"seduce", "compose_seduce_visual">>, <<"allure", "_allure_visual">>,
       <<"charm", "compose_seduce_visual">>,
       <<"entice", "compose_seduce_visual">>,
       <<"tease", "compose_seduce_visual">>, <<"flirt", "compose_seduce_visual">>,
       <<"forbidden", "compose_forbidden_visual">>,
       <<"sinful", "compose_forbidden_visual">>, <<"wicked", "_wicked_visual">>,
       <<"corrupt", "compose_forbidden_visual">>,
       <<"unholy", "compose_forbidden_visual">>,
       <<"taboo", "compose_forbidden_visual">>,
       <<"torment", "compose_bondage_visual">>,
       <<"agony", "compose_bondage_visual">>,
       <<"suffering", "_suffering_visual">>,
       <<"anguish", "compose_pleasure_visual">>, <<"pain", "_pain_visual">>,
       <<"punish", "compose_bondage_visual">>, <<"spank", "_spank_visual">>,
       <<"velvet", "compose_texture_visual">>, <<"silk", "compose_texture_visual">>, <<"satin", "compose_texture_visual">>,
       <<"lace", "compose_texture_visual">>, <<"leather", "compose_texture_visual">>, <<"latex", "compose_texture_visual">>,
       <<"bind", "compose_bondage_visual">>,
       <<"chain", "compose_bondage_visual">>,
       <<"restrain", "compose_bondage_visual">>,
       <<"dominate", "_dominate_visual">>, <<"submit", "_submit_visual">>,
       <<"obey", "_obey_visual">>, <<"serve", "_serve_visual">>,
       <<"ravish", "compose_intensity_visual">>,
       <<"devour", "compose_intensity_visual">>,
       <<"consume", "compose_intensity_visual">>,
       <<"overwhelm", "_overwhelm_visual">>,
       <<"claim", "compose_intensity_visual">>, <<"curves", "_curves_visual">>,
       <<"flesh", "_flesh_visual">>, <<"skin", "_skin_visual">> >>
-----------------------------------------------------------------------------
(* prompts.py: synonym substitution pass.                                  *)

\* vary_word looking the word up without lower-casing it
vary_word_case_sensitive(word, replacement_chance, st) ==
    LET clean == RStrip(word, ".,;:!?")
    IN  IF clean \in DOMAIN SYNONYM_MAP
        THEN IF RandomBelow(st.n, replacement_chance)
             THEN LET picked == Choice(SYNONYM_MAP[clean], st.n + 1)
                      trailing == SubSeq(word, Len(clean) + 1, Len(word))
                  IN  [result |-> Append(st.result, picked \o trailing), n |-> st.n + 2]
             ELSE [result |-> Append(st.result, word), n |-> st.n + 1]
        ELSE [result |-> Append(st.result, word), n |-> st.n]

\* vary_word matching the case of the whole word: an all-caps word gets an
\* all-caps synonym
vary_word_upper(word, replacement_chance, st) ==
    LET clean == RStrip(Lower(word), ".,;:!?")
        stem == SubSeq(word, 1, Len(clean))
    IN  IF clean \in DOMAIN SYNONYM_MAP
        THEN IF RandomBelow(st.n, replacement_chance)
             THEN LET picked == Choice(SYNONYM_MAP[clean], st.n + 1)
                      synonym == IF stem = Upper(stem) THEN Upper(picked)
                                 ELSE IF IsUpper(Char(word, 1)) THEN Capitalize(picked)
                                 ELSE picked
                      trailing == SubSeq(word, Len(clean) + 1, Len(word))
                  IN  [result |-> Append(st.result, synonym \o trailing), n |-> st.n + 2]
             ELSE [result |-> Append(st.result, word), n |-> st.n + 1]
        ELSE [result |-> Append(st.result, word), n |-> st.n]

\* one iteration of the loop of vary_phrase: st is the result list so far and
\* the draw position.  random.random() is called only for a known word, and
\* random.choice only when that draw is below the chance.
vary_word(word, replacement_chance, st) ==
    LET clean == RStrip(Lower(word), ".,;:!?")
    IN  IF clean \in DOMAIN SYNONYM_MAP
        THEN IF RandomBelow(st.n, replacement_chance)
             THEN LET picked == Choice(SYNONYM_MAP[clean], st.n + 1)
                      synonym == IF IsUpper(Char(word, 1)) THEN Capitalize(picked)
                                 ELSE picked
                      trailing == SubSeq(word, Len(clean) + 1, Len(word))
                  IN  [result |-> Append(st.result, synonym \o trailing), n |-> st.n + 2]
             ELSE [result |-> Append(st.result, word), n |-> st.n + 1]
        ELSE [result |-> Append(st.result, word), n |-> st.n]

RECURSIVE vary_words(_, _, _, _, _)
\* the loop over words[lo..hi] in order, from state st: the first half, then
\* the second half from the state the first half leaves (the draw position
\* never moves back, so the first half is evaluated before the second starts)
vary_words(words, lo, hi, replacement_chance, st) ==
    IF lo > hi THEN st
    ELSE IF lo = hi THEN vary_word(words[lo], replacement_chance, st)
    ELSE LET mid == (lo + hi) \div 2
             half == vary_words(words, lo, mid, replacement_chance, st)
         IN  IF half.n >= st.n
             THEN vary_words(words, mid + 1, hi, replacement_chance, half)
             ELSE half

\* vary_phrase joining the words without the separating space
vary_phrase_no_space(phrase, replacement_chance, n) ==
    LET words == Split(phrase)
        st == vary_words(words, 1, Len(words), replacement_chance,
                         [result |-> <<>>, n |-> n])
    IN  [s |-> Join("", st.result), n |-> st.n]

vary_phrase(phrase, replacement_chance, n) ==
    LET words == Split(phrase)
        st == vary_words(words, 1, Len(words), replacement_chance,
                         [result |-> <<>>, n |-> n])
    IN  [s |-> Join(" ", st.result), n |-> st.n]

-----------------------------------------------------------------------------
(* str.format with keyword arguments.  The result is [s, exc]: exc is ""   *)
(* when the call returns s and the name of the exception when it raises.   *)

\* position of the first "}" of t at or after i, 0 when there is none
ClosingBrace(t, i) ==
    LET J == {j \in i..Len(t) : Char(t, j) = "}"}
    IN  IF J = {} THEN 0 ELSE CHOOSE j \in J : \A k \in J : j <= k

\* position of the first brace of t at or after i, Len(t) + 1 when there is none
NextBrace(t, i) ==
    CHOOSE j \in i..(Len(t) + 1) :
        /\ j = Len(t) + 1 \/ Char(t, j) \in {"{", "}"}
        /\ \A k \in i..(j - 1) : Char(t, k) \notin {"{", "}"}

RECURSIVE FormatFrom(_, _, _, _)
\* the literal text up to the next brace is copied, a replacement field is
\* looked up in kwargs, a doubled brace gives one brace
FormatFrom(t, i, acc, kwargs) ==
    IF i > Len(t) THEN [s |-> acc, exc |-> ""]
    ELSE IF Char(t, i) = "{"
    THEN IF i < Len(t) /\ Char(t, i + 1) = "{"
         THEN FormatFrom(t, i + 2, acc \o "{", kwargs)
         ELSE LET j == ClosingBrace(t, i + 1)
              IN  IF j = 0 THEN [s |-> "", exc |-> "ValueError"]
                  ELSE IF SubSeq(t, i + 1, j - 1) \in DOMAIN kwargs
                  THEN FormatFrom(t, j + 1, acc \o kwargs[SubSeq(t, i + 1, j - 1)], kwargs)
                  ELSE [s |-> "", exc |-> "KeyError"]
    ELSE IF Char(t, i) = "}"
    THEN IF i < Len(t) /\ Char(t, i + 1) = "}"
         THEN FormatFrom(t, i + 2, acc \o "}", kwargs)
         ELSE [s |-> "", exc |-> "ValueError"]
    ELSE LET j == NextBrace(t, i)
         IN  FormatFrom(t, j, acc \o SubSeq(t, i, j - 1), kwargs)

Format(template, kwargs) == FormatFrom(template, 1, "", kwargs)

-----------------------------------------------------------------------------
(* composable_visuals.py: generators.                                      *)

\* the index random.choice picks in a list of the given length
ChoiceIndex(length, n) == ((Draw(n) * length) \div RandMod) + 1

compose_body_phrase(n) ==
    LET part == Choice(BASE_POOLS.BODY_PARTS, n)
        action == Choice(BASE_POOLS.BODY_ACTIONS, n + 1)
        direction == Choice(BASE_POOLS.BODY_DIRECTIONS, n + 2)
        adj == Choice(BASE_POOLS.BODY_ADJECTIVES, n + 3)
        area == Choice(BASE_POOLS.BODY_AREAS, n + 4)
    IN  [s |-> part \o " " \o action \o " " \o direction \o " " \o adj \o " " \o area,
         n |-> n + 5]

compose_touch_gesture(n) ==
    LET part == Choice(CATEGORY_POOLS.TOUCH_GESTURE_PARTS, n)
        verb == Choice(CATEGORY_POOLS.TOUCH_GESTURE_VERBS, n + 1)
        templates == << part \o " " \o verb,
                        verb \o " " \o part,
                        "a " \o part \o " " \o verb >>
    IN  [s |-> Choice(templates, n + 2), n |-> n + 3]

\* random.choice(patterns)() : the chosen lambda makes its draws after the choice
compose_embrace_visual(n) ==
    LET p == ChoiceIndex(3, n)
        gesture == compose_touch_gesture(n + 1)
    IN  CASE p = 1 ->
              [s |-> "arms " \o Choice(CATEGORY_POOLS.EMBRACE_VERBS, n + 1) \o " "
                     \o Choice(CATEGORY_POOLS.EMBRACE_TARGETS, n + 2) \o " "
                     \o Choice(CATEGORY_POOLS.EMBRACE_DETAILS, n + 3),
               n |-> n + 4]
          [] p = 2 ->
              [s |-> gesture.s \o " " \o Choice(CATEGORY_POOLS.TOUCH_AREAS, gesture.n)
                     \o ", intimate contact",
               n |-> gesture.n + 1]
          [] OTHER -> compose_body_phrase(n + 1)

compose_pleasure_visual(n) ==
    LET p == ChoiceIndex(3, n)
    IN  CASE p = 1 ->
              [s |-> Choice(CATEGORY_POOLS.PLEASURE_EXPRESSIONS, n + 1) \o " "
                     \o Choice(CATEGORY_POOLS.PLEASURE_ACTIONS, n + 2) \o ", "
                     \o Choice(CATEGORY_POOLS.PLEASURE_PROPS, n + 3),
               n |-> n + 4]
          [] p = 2 ->
              [s |-> Choice(CATEGORY_POOLS.ECSTASY_POSES, n + 1) \o " "
                     \o Choice(CATEGORY_POOLS.ECSTASY_STATES, n + 2) \o ", "
                     \o Choice(CATEGORY_POOLS.PLEASURE_EXPRESSIONS, n + 3),
               n |-> n + 4]
          [] OTHER ->
              [s |-> Choice(CATEGORY_POOLS.PLEASURE_ACTIONS, n + 1) \o " with "
                     \o Choice(CATEGORY_POOLS.PLEASURE_EXPRESSIONS, n + 2) \o ", "
                     \o Choice(CATEGORY_POOLS.ECSTASY_STATES, n + 3),
               n |-> n + 4]

compose_seduce_visual(n) ==
    LET p == ChoiceIndex(3, n)
    IN  CASE p = 1 ->
              [s |-> Choice(CATEGORY_POOLS.SEDUCE_LOOKS, n + 1) \o " while "
                     \o Choice(CATEGORY_POOLS.SEDUCE_ACTIONS, n + 2),
               n |-> n + 3]
          [] p = 2 ->
              [s |-> Choice(CATEGORY_POOLS.SEDUCE_GESTURES, n + 1) \o ", "
                     \o Choice(CATEGORY_POOLS.SEDUCE_LOOKS, n + 2),
               n |-> n + 3]
          [] OTHER ->
              [s |-> Choice(CATEGORY_POOLS.TEASE_ACTIONS, n + 1) \o " "
                     \o Choice(CATEGORY_POOLS.TEASE_TARGETS, n + 2) \o ", "
                     \o Choice(CATEGORY_POOLS.SEDUCE_LOOKS, n + 3),
               n |-> n + 4]

compose_forbidden_visual(n) ==
    LET p == ChoiceIndex(3, n)
    IN  CASE p = 1 ->
              [s |-> Choice(CATEGORY_POOLS.FORBIDDEN_ACTS, n + 1) \o " in "
                     \o Choice(CATEGORY_POOLS.FORBIDDEN_SETTINGS, n + 2),
               n |-> n + 3]
          [] p = 2 ->
              [s |-> Choice(CATEGORY_POOLS.FORBIDDEN_MOODS, n + 1) \o " encounter, "
                     \o Choice(CATEGORY_POOLS.FORBIDDEN_ACTS, n + 2),
               n |-> n + 3]
          [] OTHER ->
              [s |-> Choice(CATEGORY_POOLS.FORBIDDEN_SETTINGS, n + 1) \o ", "
                     \o Choice(CATEGORY_POOLS.FORBIDDEN_MOODS, n + 2) \o " "
                     \o Choice(CATEGORY_POOLS.FORBIDDEN_ACTS, n + 3),
               n |-> n + 4]

compose_bondage_visual(n) ==
    LET p == ChoiceIndex(3, n)
    IN  CASE p = 1 ->
              [s |-> Choice(CATEGORY_POOLS.BONDAGE_MATERIALS, n + 1) \o " binding "
                     \o Choice(CATEGORY_POOLS.BONDAGE_LOCATIONS, n + 2) \o ", "
                     \o Choice(CATEGORY_POOLS.BONDAGE_STATES, n + 3),
               n |-> n + 4]
          [] p = 2 ->
              [s |-> Choice(CATEGORY_POOLS.BONDAGE_STATES, n + 1) \o " with "
                     \o Choice(CATEGORY_POOLS.BONDAGE_MATERIALS, n + 2) \o ", "
                     \o Choice(CATEGORY_POOLS.POWER_PROPS, n + 3) \o " visible",
               n |-> n + 4]
          [] OTHER ->
              [s |-> Choice(CATEGORY_POOLS.POWER_POSITIONS, n + 1) \o ", "
                     \o Choice(CATEGORY_POOLS.POWER_PROPS, n + 2) \o " in hand",
               n |-> n + 3]

compose_texture_visual(fabric, n) ==
    LET action == Choice(CATEGORY_POOLS.FABRIC_ACTIONS, n)
        state == Choice(CATEGORY_POOLS.FABRIC_STATES, n + 1)
        adj == Choice(BASE_POOLS.BODY_ADJECTIVES, n + 2)
    IN  [s |-> fabric \o " " \o action \o " " \o state \o ", against " \o adj \o " skin",
         n |-> n + 3]

compose_intensity_visual(n) ==
    LET p == ChoiceIndex(2, n)
    IN  CASE p = 1 ->
              [s |-> Choice(CATEGORY_POOLS.INTENSITY_VERBS, n + 1) \o " "
                     \o Choice(CATEGORY_POOLS.INTENSITY_TARGETS, n + 2) \o ", "
                     \o Choice(CATEGORY_POOLS.INTENSITY_MOODS, n + 3) \o " passion",
               n |-> n + 4]
          [] OTHER ->
              [s |-> Choice(CATEGORY_POOLS.INTENSITY_MOODS, n + 1) \o " "
                     \o Choice(CATEGORY_POOLS.INTENSITY_VERBS, n + 2) \o ", "
                     \o Choice(CATEGORY_POOLS.PLEASURE_ACTIONS, n + 3),
               n |-> n + 4]

compose_lighting_phrase(n) ==
    LET quality == Choice(CATEGORY_POOLS.LIGHT_QUALITIES, n)
        source == Choice(CATEGORY_POOLS.LIGHT_SOURCES, n + 1)
        action == Choice(CATEGORY_POOLS.LIGHT_ACTIONS, n + 2)
        adj == Choice(BASE_POOLS.BODY_ADJECTIVES, n + 3)
    IN  [s |-> quality \o " " \o source \o " " \o action \o " " \o adj \o " skin",
         n |-> n + 4]

\* the simple visual generators _<keyword>_visual, by keyword
simple_visual(which, n) ==
    CASE which = "_whisper_visual" ->
          [s |-> "lips near " \o Choice(<<"ear", "neck", "shoulder">>, n)
                 \o ", breath on " \o Choice(BASE_POOLS.BODY_ADJECTIVES, n + 1) \o " skin",
           n |-> n + 2]
      [] which = "_kiss_visual" ->
          [s |-> "lips on " \o Choice(BASE_POOLS.BODY_AREAS, n) \o ", "
                 \o Choice(<<"lipstick mark", "kiss trail", "gentle pressure">>, n + 1),
           n |-> n + 2]
      [] which = "_bliss_visual" ->
          [s |-> "relaxed " \o Choice(<<"sprawl", "pose", "repose">>, n) \o ", "
                 \o Choice(CATEGORY_POOLS.ECSTASY_STATES, n + 1) \o ", afterglow",
           n |-> n + 2]
      [] which = "_moan_visual" ->
          [s |-> "open mouth, " \o Choice(CATEGORY_POOLS.PLEASURE_EXPRESSIONS, n) \o ", "
                 \o Choice(CATEGORY_POOLS.PLEASURE_ACTIONS, n + 1),
           n |-> n + 2]
      [] which = "_allure_visual" ->
          [s |-> "silhouette "
                 \o Choice(<<"backlit", "in doorway", "emerging from shadow">>, n) \o ", "
                 \o Choice(CATEGORY_POOLS.SEDUCE_LOOKS, n + 1),
           n |-> n + 2]
      [] which = "_wicked_visual" ->
          [s |-> Choice(CATEGORY_POOLS.POWER_POSITIONS, n) \o ", "
                 \o Choice(<<"cruel smile", "predatory gaze", "knowing smirk">>, n + 1),
           n |-> n + 2]
      [] which = "_suffering_visual" ->
          [s |-> "blindfolded, " \o Choice(CATEGORY_POOLS.BONDAGE_STATES, n) \o ", "
                 \o Choice(<<"anticipation", "waiting", "denied">>, n + 1),
           n |-> n + 2]
      [] which = "_pain_visual" ->
          [s |-> "marks on " \o Choice(BASE_POOLS.BODY_AREAS, n) \o ", "
                 \o Choice(<<"pleasurable aftermath", "sweet pain", "delicious sting">>, n + 1),
           n |-> n + 2]
      [] which = "_spank_visual" ->
          [s |-> "hand print on " \o Choice(<<"curves", "bare skin", "soft flesh">>, n)
                 \o ", impact moment",
           n |-> n + 1]
      [] which = "_dominate_visual" ->
          [s |-> Choice(CATEGORY_POOLS.POWER_POSITIONS, n) \o ", "
                 \o Choice(CATEGORY_POOLS.POWER_PROPS, n + 1) \o ", "
                 \o Choice(<<"command", "control", "ownership">>, n + 2),
           n |-> n + 3]
      [] which = "_submit_visual" ->
          [s |-> "kneeling, " \o Choice(<<"head bowed", "eyes down", "offering self">>, n)
                 \o ", " \o Choice(CATEGORY_POOLS.BONDAGE_STATES, n + 1),
           n |-> n + 2]
      [] which = "_obey_visual" ->
          [s |-> "following command, "
                 \o Choice(<<"trained response", "eager compliance", "willing submission">>, n),
           n |-> n + 1]
      [] which = "_serve_visual" ->
          [s |-> "service position, "
                 \o Choice(<<"attendant pose", "offering", "devoted stance">>, n),
           n |-> n + 1]
      [] which = "_overwhelm_visual" ->
          [s |-> "multiple sensations, " \o Choice(CATEGORY_POOLS.PLEASURE_ACTIONS, n) \o ", "
                 \o Choice(CATEGORY_POOLS.ECSTASY_STATES, n + 1),
           n |-> n + 2]
      [] which = "_curves_visual" ->
          [s |-> Choice(<<"hourglass silhouette", "body contours", "feminine shape">>, n)
                 \o ", " \o Choice(BASE_POOLS.BODY_ADJECTIVES, n + 1) \o " skin",
           n |-> n + 2]
      [] which = "_flesh_visual" ->
          [s |-> Choice(BASE_POOLS.BODY_ADJECTIVES, n) \o " skin expanses, "
                 \o Choice(<<"nude form", "exposed body", "bare figure">>, n + 1),
           n |-> n + 2]
      [] which = "_skin_visual" ->
          [s |-> Choice(<<"gleaming", "glistening", "radiant">>, n) \o " skin, "
                 \o Choice(<<"touchable", "inviting", "warm">>, n + 1) \o " surface",
           n |-> n + 2]


\* the generator registered for a keyword, "" when there is none (dict.get)
GeneratorOf(keyword) ==
    LET I == {i \in 1..Len(NSFW_VISUAL_GENERATORS) : NSFW_VISUAL_GENERATORS[i][1] = keyword}
    IN  IF I = {} THEN "" ELSE NSFW_VISUAL_GENERATORS[CHOOSE i \in I : TRUE][2]

\* generator(): the texture entries are lambdas passing their own keyword as fabric
CallGenerator(generator, keyword, n) ==
    CASE generator = "compose_embrace_visual" -> compose_embrace_visual(n)
      [] generator = "compose_pleasure_visual" -> compose_pleasure_visual(n)
      [] generator = "compose_seduce_visual" -> compose_seduce_visual(n)
      [] generator = "compose_forbidden_visual" -> compose_forbidden_visual(n)
      [] generator = "compose_bondage_visual" -> compose_bondage_visual(n)
      [] generator = "compose_intensity_visual" -> compose_intensity_visual(n)
      [] generator = "compose_texture_visual" -> compose_texture_visual(keyword, n)
      [] OTHER -> simple_visual(generator, n)

generate_nsfw_visual(keyword, n) ==
    LET generator == GeneratorOf(Lower(keyword))
    IN  IF generator # "" THEN CallGenerator(generator, Lower(keyword), n)
        ELSE [s |-> "", n |-> n]

compose_theme_mood(theme, n) ==
    LET adjs == IF theme \in DOMAIN MOOD_ADJECTIVES
                THEN MOOD_ADJECTIVES[theme] ELSE MOOD_ADJECTIVES["power"]
        nouns == IF theme \in DOMAIN MOOD_NOUNS
                 THEN MOOD_NOUNS[theme] ELSE MOOD_NOUNS["power"]
        adj == Sample(adjs, 2, n)
        noun == Sample(nouns, 2, n + 2)
        patterns == << adj[1] \o " " \o noun[1] \o ", " \o adj[2] \o " " \o noun[2],
                       adj[1] \o " and " \o adj[2] \o " " \o noun[1],
                       noun[1] \o " and " \o adj[1] \o " " \o noun[2],
                       adj[1] \o " " \o noun[1] \o " radiating " \o noun[2],
                       "surging " \o adj[1] \o " " \o noun[1],
                       adj[1] \o " " \o noun[1] \o ", building " \o noun[2] >>
    IN  [s |-> Choice(patterns, n + 4), n |-> n + 5]

\* compose_scene_template filling in the verb only
compose_scene_template_verb_only(content, n) ==
    LET structure == Choice(SCENE_STRUCTURES, n)
        verb == Choice(SCENE_VERBS, n + 1)
    IN  [s |-> Replace(structure, "{verb}", verb), exc |-> "", n |-> n + 2]

compose_scene_template(content, n) ==
    LET structure == Choice(SCENE_STRUCTURES, n)
        verb == Choice(SCENE_VERBS, n + 1)
        formatted == Format(structure, [verb |-> verb, content |-> content])
    IN  [s |-> formatted.s, exc |-> formatted.exc, n |-> n + 2]

compose_style_suffix(n) ==
    LET origin == Choice(STYLE_POOLS.STYLE_ORIGINS, n)
        style_type == Choice(STYLE_POOLS.STYLE_TYPES, n + 1)
        mood == Choice(STYLE_POOLS.STYLE_MOODS, n + 2)
        style_connector == Choice(<<"with", "featuring", "showing", "in">>, n + 3)
        style_patterns ==
            << Capitalize(origin) \o " " \o style_type \o " " \o style_connector \o " "
                   \o mood \o " aesthetics.",
               Capitalize(mood) \o " " \o origin \o "-style " \o style_type \o ".",
               "Drawn in " \o mood \o " " \o origin \o " style.",
               Capitalize(origin) \o "-quality " \o mood \o " " \o style_type \o ".",
               Capitalize(mood) \o " " \o style_type \o ", " \o origin \o " aesthetics.",
               "Illustrated " \o style_connector \o " " \o mood \o " " \o origin \o " flair.",
               Capitalize(origin) \o " " \o mood \o " artwork.",
               "Painted in " \o mood \o " " \o origin \o " manner." >>
        style_part == Choice(style_patterns, n + 4)
        tech_quality == Choice(STYLE_POOLS.TECHNIQUE_QUALITIES, n + 5)
        tech_verb == Choice(STYLE_POOLS.TECHNIQUE_VERBS, n + 6)
        subj_noun == Choice(STYLE_POOLS.TECHNIQUE_SUBJECT_NOUNS, n + 7)
        subj_mod == Choice(STYLE_POOLS.TECHNIQUE_SUBJECT_MODS, n + 8)
        tech_subject == Choice(<<subj_noun, subj_noun \o " " \o subj_mod>>, n + 9)
        comp_noun == Choice(STYLE_POOLS.TECHNIQUE_COMPLEMENT_NOUNS, n + 10)
        comp_mod == Choice(STYLE_POOLS.TECHNIQUE_COMPLEMENT_MODS, n + 11)
        tech_complement == Choice(<<comp_noun, comp_mod \o " " \o comp_noun>>, n + 12)
        connector == Choice(STYLE_POOLS.TECHNIQUE_CONNECTORS, n + 13)
        tech_prefix == Choice(<<"Expert", "Masterful", "Skilled", "Fine", "Rich">>, n + 14)
        tech_verb_alt ==
            Choice(<<"rendering", "depicting", "portraying", "showing", "enhancing">>, n + 15)
        tq == Capitalize(tech_quality)
        tv == Capitalize(tech_verb)
        tech_patterns ==
            << tq \o " " \o tech_verb \o " on " \o tech_subject \o " " \o connector \o " "
                   \o tech_complement \o ".",
               tq \o " " \o tech_verb_alt \o " " \o tech_subject \o " " \o connector \o " "
                   \o tech_complement \o ".",
               tv \o " " \o tech_subject \o ", " \o tech_complement \o " rendered "
                   \o tech_quality \o "ly.",
               tech_prefix \o " " \o tech_verb \o " of " \o tech_subject \o " " \o connector
                   \o " " \o tech_complement \o ".",
               tq \o " " \o tech_verb \o " highlighting " \o tech_subject \o ".",
               tech_prefix \o " " \o tech_verb_alt \o " for " \o tech_subject \o ".",
               tv \o " " \o tech_quality \o " " \o tech_subject \o " " \o connector \o " "
                   \o tech_complement \o "." >>
        tech_part == Choice(tech_patterns, n + 16)
    IN  [s |-> style_part \o " " \o tech_part, n |-> n + 17]

-----------------------------------------------------------------------------
(* composable_themes.py: generators.                                       *)

RECURSIVE compose_theme_subject(_, _)
compose_theme_subject(theme, n) ==
    IF theme = "attack" THEN
        LET implement == Choice(ATTACK_POOLS.ATTACK_IMPLEMENTS, n)
            action == Choice(ATTACK_POOLS.ATTACK_ACTIONS, n + 1)
            visual == Choice(ATTACK_POOLS.ATTACK_VISUALS, n + 2)
            patterns == << implement \o " " \o action \o ", " \o visual,
                           "dominatrix with " \o implement \o ", " \o action,
                           implement \o " mid-strike, " \o visual,
                           "erotic " \o implement \o " " \o action,
                           visual \o " as " \o implement \o " moves" >>
        IN  [s |-> Choice(patterns, n + 3), n |-> n + 4]
    ELSE IF theme = "skill" THEN
        LET symbol == Choice(SKILL_POOLS.SKILL_SYMBOLS, n)
            placement == Choice(SKILL_POOLS.SKILL_PLACEMENTS, n + 1)
            effect == Choice(SKILL_POOLS.SKILL_EFFECTS, n + 2)
            patterns == << symbol \o " " \o placement \o ", " \o effect,
                           "mystical " \o symbol \o " with " \o effect,
                           effect \o " surrounding " \o symbol,
                           symbol \o " appearing, " \o placement,
                           "enchanted " \o symbol \o ", " \o effect \o " trailing" >>
        IN  [s |-> Choice(patterns, n + 3), n |-> n + 4]
    ELSE IF theme = "power" THEN
        LET aura == Choice(POWER_POOLS.POWER_AURAS, n)
            manifest == Choice(POWER_POOLS.POWER_MANIFESTATIONS, n + 1)
            intensity == Choice(POWER_POOLS.POWER_INTENSITIES, n + 2)
            patterns == << intensity \o " " \o aura \o " " \o manifest,
                           aura \o " of " \o intensity \o " energy",
                           "power " \o manifest \o ", " \o intensity \o " presence",
                           intensity \o " force with " \o aura,
                           aura \o " around her",
                           manifest \o " with " \o intensity \o " presence",
                           "visible " \o aura \o " " \o manifest,
                           intensity \o " power " \o manifest >>
        IN  [s |-> Choice(patterns, n + 3), n |-> n + 4]
    ELSE compose_theme_subject("attack", n)

RECURSIVE compose_theme_erotic(_, _)
compose_theme_erotic(theme, n) ==
    IF theme = "attack" THEN
        LET texture == Choice(ATTACK_POOLS.ATTACK_TEXTURES, n)
            mark == Choice(ATTACK_POOLS.ATTACK_MARKS, n + 1)
            element == Choice(ATTACK_POOLS.ATTACK_ELEMENTS, n + 2)
            patterns == << texture \o " textures, " \o element,
                           "bare skin showing " \o mark,
                           texture \o " against flesh, " \o mark,
                           element \o ", " \o texture \o " prominent",
                           mark \o ", " \o texture \o " visible" >>
        IN  [s |-> Choice(patterns, n + 3), n |-> n + 4]
    ELSE IF theme = "skill" THEN
        LET body_art == Choice(SKILL_POOLS.SKILL_BODY_ART, n)
            glow == Choice(SKILL_POOLS.SKILL_GLOWS, n + 1)
            flow == Choice(SKILL_POOLS.SKILL_FLOWS, n + 2)
            patterns == << body_art \o " with " \o glow,
                           glow \o " " \o flow \o " over skin",
                           "glowing " \o body_art \o ", " \o flow,
                           flow \o " through " \o body_art,
                           body_art \o " pulsing, " \o glow \o " visible" >>
        IN  [s |-> Choice(patterns, n + 3), n |-> n + 4]
    ELSE IF theme = "power" THEN
        LET pose == Choice(POWER_POOLS.POWER_POSES, n)
            expression == Choice(POWER_POOLS.POWER_EXPRESSIONS, n + 1)
            feature == Choice(POWER_POOLS.POWER_FEATURES, n + 2)
            patterns == << pose \o " with " \o expression,
                           feature \o ", " \o expression,
                           pose \o ", " \o feature,
                           expression \o ", " \o feature,
                           "dominant " \o pose \o ", " \o feature >>
        IN  [s |-> Choice(patterns, n + 3), n |-> n + 4]
    ELSE compose_theme_erotic("attack", n)

compose_crop_description(n) ==
    LET verb == Choice(CROP_POOLS.CROP_VERBS, n)
        adverb == Choice(CROP_POOLS.CROP_ADVERBS, n + 1)
        area == Choice(CROP_POOLS.CROP_FOCUS_AREAS, n + 2)
        part == Choice(CROP_POOLS.CROP_FOCUS_PARTS, n + 3)
        effect_verb == Choice(CROP_POOLS.CROP_EFFECT_VERBS, n + 4)
        effect_target == Choice(CROP_POOLS.CROP_EFFECT_TARGETS, n + 5)
        patterns ==
            << verb \o " " \o adverb \o " showing " \o area \o " " \o part \o ".",
               Capitalize(adverb) \o " " \o Lower(verb) \o " " \o effect_verb \o " "
                   \o effect_target \o ".",
               verb \o " for " \o area \o " " \o part \o ", " \o effect_verb \o " "
                   \o effect_target \o ".",
               Capitalize(adverb) \o " focus on " \o area \o " " \o part \o ".",
               verb \o " emphasizing " \o area \o " " \o part \o ".",
               Capitalize(adverb) \o " framing of " \o area \o " " \o part \o ".",
               verb \o " highlighting " \o area \o " " \o part \o "." >>
    IN  [s |-> Choice(patterns, n + 6), n |-> n + 7]

compose_mood_phrase(mood_content, n) ==
    LET intro == Choice(MOOD_PHRASE_POOLS.MOOD_INTROS, n)
        adj == Choice(MOOD_PHRASE_POOLS.MOOD_ADJECTIVES, n + 1)
        noun == Choice(MOOD_PHRASE_POOLS.MOOD_NOUNS, n + 2)
        quality == Choice(MOOD_PHRASE_POOLS.MOOD_QUALITIES, n + 3)
        patterns == << intro \o " " \o adj \o " " \o noun,
                       intro \o " " \o adj \o " " \o noun \o " " \o quality,
                       Capitalize(adj) \o " " \o noun \o " " \o quality,
                       intro \o " " \o noun \o " and " \o adj \o " energy",
                       Capitalize(quality) \o " " \o adj \o " " \o noun >>
    IN  IF mood_content # ""
        THEN [s |-> intro \o " " \o mood_content, n |-> n + 4]
        ELSE [s |-> Choice(patterns, n + 4), n |-> n + 5]

compose_composition_phrase(n) ==
    LET technique == Choice(COMPOSITION_POOLS.COMPOSITION_TECHNIQUES, n)
        style == Choice(COMPOSITION_POOLS.COMPOSITION_STYLES, n + 1)
        focus == Choice(COMPOSITION_POOLS.COMPOSITION_FOCUSES, n + 2)
        method == Choice(COMPOSITION_POOLS.COMPOSITION_METHODS, n + 3)
        patterns == << style \o " " \o technique \o " " \o method,
                       technique \o " on " \o focus \o " " \o method,
                       style \o " " \o focus \o " " \o technique,
                       method \o " " \o style \o " " \o technique,
                       focus \o "-focused " \o style \o " " \o technique,
                       style \o " " \o technique \o " for " \o focus >>
    IN  [s |-> Choice(patterns, n + 4), n |-> n + 5]

\* the f-strings write {{visual}}, which leaves the placeholder {visual} in the
\* template the function returns
compose_opening_template(n) ==
    LET article == Choice(OPENING_POOLS.OPENING_ARTICLES, n)
        adj == Choice(OPENING_POOLS.OPENING_ADJECTIVES, n + 1)
        noun == Choice(OPENING_POOLS.OPENING_NOUNS, n + 2)
        verb == Choice(OPENING_POOLS.OPENING_VERBS, n + 3)
        patterns ==
            << article \o " " \o adj \o " " \o noun \o " " \o verb \o ": {visual}.",
               Capitalize(adj) \o " energy " \o verb \o " as {visual}.",
               article \o " " \o noun \o " of " \o adj \o " power: {visual}.",
               Capitalize(verb) \o " {visual} in " \o adj \o " detail.",
               article \o " " \o adj \o " view " \o verb \o " {visual}.",
               Capitalize(noun) \o " " \o verb \o ": {visual}.",
               Capitalize(adj) \o " " \o noun \o " frames {visual}.",
               Capitalize(adj) \o " light " \o verb \o " {visual}.",
               Capitalize(noun) \o " dances across {visual}.",
               Capitalize(adj) \o " shadows " \o verb \o " {visual}.",
               Capitalize(adj) \o " touch " \o verb \o " {visual}.",
               Capitalize(adj) \o " " \o noun \o " mingles with {visual}." >>
    IN  [s |-> Choice(patterns, n + 4), n |-> n + 5]

-----------------------------------------------------------------------------
(* prompts.py: element generators, configuration, name visuals.            *)

compose_fallback_visual(n) ==
    LET adj == Choice(FALLBACK_VISUAL_POOLS.FALLBACK_VISUAL_ADJECTIVES, n)
        noun == Choice(FALLBACK_VISUAL_POOLS.FALLBACK_VISUAL_NOUNS, n + 1)
        verb == Choice(FALLBACK_VISUAL_POOLS.FALLBACK_VISUAL_VERBS, n + 2)
        target == Choice(FALLBACK_VISUAL_POOLS.FALLBACK_VISUAL_TARGETS, n + 3)
    IN  [s |-> adj \o " " \o noun \o " " \o verb \o " " \o target, n |-> n + 4]

\* dict.get(key, default)
PyGet(d, key, default) == IF key \in DOMAIN d THEN d[key] ELSE default

\* the empty dict {}
EmptyDict == [x \in {} |-> None]

\* compose_element_colors falling back to the fire pools
compose_element_colors_fire_default(element, n) ==
    LET primaries == PyGet(ELEMENT_COLOR_PRIMARIES, element, ELEMENT_COLOR_PRIMARIES["fire"])
        accents == PyGet(ELEMENT_COLOR_ACCENTS, element, ELEMENT_COLOR_ACCENTS["fire"])
        primary == Choice(primaries, n)
        accent == Choice(accents, n + 1)
        connector == Choice(COLOR_CONNECTORS, n + 2)
    IN  [s |-> primary \o " " \o connector \o " " \o accent, n |-> n + 3]

compose_element_colors(element, n) ==
    LET primaries == PyGet(ELEMENT_COLOR_PRIMARIES, element, ELEMENT_COLOR_PRIMARIES["physical"])
        accents == PyGet(ELEMENT_COLOR_ACCENTS, element, ELEMENT_COLOR_ACCENTS["physical"])
        primary == Choice(primaries, n)
        accent == Choice(accents, n + 1)
        connector == Choice(COLOR_CONNECTORS, n + 2)
    IN  [s |-> primary \o " " \o connector \o " " \o accent, n |-> n + 3]

Min(a, b) == IF a <= b THEN a ELSE b

compose_element_atmosphere(element, n) ==
    LET adj_pool == PyGet(ELEMENT_ATMOSPHERE_ADJ, element, ELEMENT_ATMOSPHERE_ADJ["physical"])
        count == Choice(<<2, 3>>, n)
        adjs == Sample(adj_pool, Min(count, Len(adj_pool)), n + 1)
    IN  [s |-> Join(", ", adjs), n |-> n + 1 + Len(adjs)]

\* _load_config(): the cached configuration, read from prompts.yaml when the
\* cache is empty
LoadConfig == IF config_cache = None THEN config_file ELSE config_cache

get_element_features(category) ==
    LET features == PyGet(LoadConfig, "element_features", EmptyDict)
    IN  PyGet(features, category, PyGet(features, "card", EmptyDict))

get_hero_archetypes == PyGet(LoadConfig, "hero_archetypes", EmptyDict)

get_enemy_archetypes == PyGet(LoadConfig, "enemy_archetypes", EmptyDict)

RECURSIVE match_words(_, _, _)
\* first loop of _extract_name_visuals: every word of the name that is a keyword
\* adds the visual generated for it.  from is the keyword behind each visual.
match_words(words, i, st) ==
    IF i > Len(words) THEN st
    ELSE LET visual == generate_nsfw_visual(words[i], st.n)
         IN  IF visual.s # ""
             THEN match_words(words, i + 1,
                              [matched |-> Append(st.matched, visual.s),
                               from |-> Append(st.from, words[i]),
                               n |-> visual.n])
             ELSE match_words(words, i + 1, [st EXCEPT !.n = visual.n])

InSeq(x, seq) == \E i \in 1..Len(seq) : seq[i] = x

RECURSIVE match_keywords(_, _, _)
\* second loop: every keyword that is a substring of the name generates a visual
\* again while fewer than 2 are matched; it is added when not already in the list
match_keywords(name_lower, k, st) ==
    IF k > Len(NSFW_VISUAL_GENERATORS) THEN st
    ELSE LET keyword == NSFW_VISUAL_GENERATORS[k][1]
         IN  IF Contains(name_lower, keyword) /\ Len(st.matched) < 2
             THEN LET visual == generate_nsfw_visual(keyword, st.n)
                  IN  IF visual.s # "" /\ ~InSeq(visual.s, st.matched)
                      THEN match_keywords(name_lower, k + 1,
                                          [matched |-> Append(st.matched, visual.s),
                                           from |-> Append(st.from, keyword),
                                           n |-> visual.n])
                      ELSE match_keywords(name_lower, k + 1, [st EXCEPT !.n = visual.n])
             ELSE match_keywords(name_lower, k + 1, st)

\* the words of the name with possessives dropped and hyphens as spaces
name_words(name_lower) == Split(Replace(Replace(name_lower, "'s", ""), "-", " "))

\* matched_visuals after both loops, starting from the empty list
matched_visuals(name_lower, n) ==
    match_keywords(name_lower, 1,
                   match_words(name_words(name_lower), 1,
                               [matched |-> <<>>, from |-> <<>>, n |-> n]))

\* the return: the result carries, beside the returned string s, the list
\* matched_visuals[:2] it was joined from and the keyword that generated each
\* of its entries
joined_visuals(st) ==
    LET kept == Min(2, Len(st.matched))
    IN  [s |-> IF st.matched # <<>> THEN Join(", ", SubSeq(st.matched, 1, kept)) ELSE "",
         visuals |-> SubSeq(st.matched, 1, kept),
         from |-> SubSeq(st.from, 1, kept),
         n |-> st.n]

_extract_name_visuals(name, n) == joined_visuals(matched_visuals(Lower(name), n))

-----------------------------------------------------------------------------
(* prompts.py: prompt assembly.  A result is [s, exc, n]: exc is "" when   *)
(* the call returns s, else the exception it raises.                       *)

\* a swap that writes only one side, losing seq[i]
SwapOverwrite(seq, i, j) == [seq EXCEPT ![i] = seq[j]]

Swap(seq, i, j) == [seq EXCEPT ![i] = seq[j], ![j] = seq[i]]

\* random.shuffle of a list of three: for i = 2, 1: j = randbelow(i + 1), swap
Shuffle3(seq, n) ==
    LET j2 == ChoiceIndex(3, n)
        j1 == ChoiceIndex(2, n + 1)
    IN  Swap(Swap(seq, 3, j2), 2, j1)

\* an optional string (str | None) is a sequence: <<>> for None, <<s>> for s
NoneStr == <<>>

\* the truth value of an optional string: neither None nor empty
Truthy(x) == x # NoneStr /\ x[1] # ""

\* 1. scene: the visual is the name visual, or a fallback when there is none
\* visual_content; fallback tells which branch of the if at 752 was taken
fallback_content(visual) == [s |-> visual.s, n |-> visual.n, fallback |-> TRUE]

\* scene_visual without the else branch: the name visual is used as it is
scene_visual_name_only(name_visual) ==
    [s |-> name_visual.s, n |-> name_visual.n, fallback |-> FALSE]

scene_visual(name_visual) ==
    IF name_visual.s # ""
    THEN [s |-> name_visual.s, n |-> name_visual.n, fallback |-> FALSE]
    ELSE fallback_content(compose_fallback_visual(name_visual.n))

\* scene, with the visual_content it was formatted from
scene_format(visual_content, opening) ==
    LET scene == Format(opening.s, [visual |-> visual_content.s])
    IN  [s |-> scene.s, exc |-> scene.exc, n |-> opening.n,
         visual_content |-> visual_content.s, fallback |-> visual_content.fallback]

scene_opening(visual_content) ==
    scene_format(visual_content, compose_opening_template(visual_content.n))

card_scene(name, n) == scene_opening(scene_visual(_extract_name_visuals(name, n)))

\* 2. details: "<theme subject> with <theme erotic>" in a scene template
details_content(theme, theme_subject) ==
    LET theme_erotic == compose_theme_erotic(theme, theme_subject.n)
    IN  [s |-> theme_subject.s \o " with " \o theme_erotic.s, n |-> theme_erotic.n]

details_template(content) == compose_scene_template(content.s, content.n)

card_details(theme, n) ==
    details_template(details_content(theme, compose_theme_subject(theme, n)))

\* 3. framing: intro, crop description, camera phrase, composition
framing_camera(n) ==
    LET camera_adjectives ==
            << "intimate", "sensual", "provocative", "alluring", "teasing", "voyeuristic",
               "dramatic", "soft-focus", "dynamic", "seductive", "suggestive", "candid",
               "artistic", "revealing", "evocative" >>
        camera_types ==
            << "close-up", "medium", "low-angle", "dutch-angle", "over-shoulder", "wide",
               "three-quarter", "portrait", "action", "bird's-eye", "profile", "full-body",
               "silhouette", "boudoir", "side-view" >>
        camera_templates ==
            << "{adj} {type}", "{type}, {adj}", "{adj} {type} view", "{type} ({adj})",
               "{adj}-style {type}" >>
        cam_adj == Choice(camera_adjectives, n)
        cam_type == Choice(camera_types, n + 1)
    IN  Format(Choice(camera_templates, n + 2), [adj |-> cam_adj, type |-> cam_type])

framing_text(framing_intro, crop_desc, camera, composition) ==
    [s |-> framing_intro \o " " \o composition.s \o " " \o camera.s \o ". " \o crop_desc.s,
     exc |-> camera.exc,
     n |-> composition.n]

framing_crop(framing_intro, crop_desc) ==
    framing_text(framing_intro, crop_desc, framing_camera(crop_desc.n),
                 compose_composition_phrase(crop_desc.n + 3))

card_framing(n) == framing_crop(Choice(FRAMING_INTROS, n), compose_crop_description(n + 1))

\* 4. lighting: element colours and atmosphere, theme mood, skin highlight
lighting_text(elem_colors, elem_atmosphere, n, skin_highlight, mood_phrase) ==
    LET lighting_intro == Choice(LIGHTING_INTROS, n)
        mood_connector == Choice(MOOD_CONNECTORS, n + 1)
        atmosphere_endings ==
            << elem_atmosphere.s \o " atmosphere.", elem_atmosphere.s \o " vibe.",
               elem_atmosphere.s \o " energy.", elem_atmosphere.s \o " aura.",
               elem_atmosphere.s \o " ambiance.", elem_atmosphere.s \o " feeling.",
               elem_atmosphere.s \o " presence.", elem_atmosphere.s \o " tone." >>
        atmosphere_end == Choice(atmosphere_endings, mood_phrase.n)
        \* the em dash of the second junction is written "--"
        mood_junction == Choice(<<"", " --", ";", " ·", ",">>, mood_phrase.n + 1)
    IN  [s |-> lighting_intro \o " " \o elem_colors.s \o " " \o mood_connector \o " "
               \o atmosphere_end \o mood_junction \o " " \o mood_phrase.s \o " "
               \o skin_highlight.s,
         n |-> mood_phrase.n + 2]

lighting_mood_phrase(elem_colors, elem_atmosphere, theme_mood, skin_highlight) ==
    lighting_text(elem_colors, elem_atmosphere, theme_mood.n, skin_highlight,
                  compose_mood_phrase(theme_mood.s, skin_highlight.n))

lighting_highlight(elem_colors, elem_atmosphere, theme_mood) ==
    lighting_mood_phrase(elem_colors, elem_atmosphere, theme_mood,
                         compose_lighting_phrase(theme_mood.n + 2))

lighting_mood(theme, elem_colors, elem_atmosphere) ==
    lighting_highlight(elem_colors, elem_atmosphere,
                       compose_theme_mood(theme, elem_atmosphere.n))

lighting_atmosphere(theme, element, elem_colors) ==
    lighting_mood(theme, elem_colors, compose_element_atmosphere(element, elem_colors.n))

card_lighting(theme, element, n) ==
    lighting_atmosphere(theme, element, compose_element_colors(element, n))

\* scene first, the shuffled middle sections, style last, then the custom
\* hint; the synonym pass runs over the joined text
card_combine(custom_hint, scene, details, framing, lighting, style) ==
    LET middle_parts == Shuffle3(<<details.s, framing.s, lighting.s>>, style.n)
        prompt_parts == <<scene.s>> \o middle_parts \o <<style.s>>
                        \o (IF Truthy(custom_hint) THEN custom_hint ELSE <<>>)
        varied == vary_phrase(Join(" ", prompt_parts), 35, style.n + 2)
    IN  IF scene.exc # "" THEN [s |-> "", exc |-> scene.exc, n |-> scene.n]
        ELSE IF details.exc # "" THEN [s |-> "", exc |-> details.exc, n |-> details.n]
        ELSE IF framing.exc # "" THEN [s |-> "", exc |-> framing.exc, n |-> framing.n]
        ELSE [s |-> varied.s, exc |-> "", n |-> varied.n,
              \* the local variables at the return, beside the returned string
              visual_content |-> scene.visual_content, fallback |-> scene.fallback,
              scene |-> scene.s, details |-> details.s, framing |-> framing.s,
              lighting |-> lighting.s, style |-> style.s,
              prompt_parts |-> prompt_parts]

card_style(custom_hint, scene, details, framing, lighting) ==
    card_combine(custom_hint, scene, details, framing, lighting,
                 compose_style_suffix(lighting.n))

card_from_framing(theme, element, custom_hint, scene, details, framing) ==
    card_style(custom_hint, scene, details, framing,
               card_lighting(theme, element, framing.n))

card_from_details(theme, element, custom_hint, scene, details) ==
    card_from_framing(theme, element, custom_hint, scene, details, card_framing(details.n))

card_from_scene(theme, element, custom_hint, scene) ==
    card_from_details(theme, element, custom_hint, scene, card_details(theme, scene.n))

card_to_prompt(name, description, theme, element, rarity, custom_hint, n) ==
    card_from_scene(theme, element, custom_hint, card_scene(name, n))

hero_to_prompt(name, description, archetype, element, custom_hint, n) ==
    LET element_features == get_element_features("hero")
        elem_features == PyGet(element_features, element, "flowing hair")
        archetype_data == PyGet(get_hero_archetypes, archetype, EmptyDict)
        arch_pose == PyGet(archetype_data, "pose", "heroic stance")
        arch_wardrobe == PyGet(archetype_data, "wardrobe", "fantasy armor")
        arch_physical == PyGet(archetype_data, "physical", "voluptuous figure with large breasts")
        subject == "A beautiful anime woman, a " \o archetype \o " hero named " \o name \o ". "
                   \o "She has " \o elem_features
                   \o " and stunning detailed eyes with a perfect face."
        appearance == "Her figure is " \o arch_physical \o ". "
                      \o "She has an alluring physique with exposed cleavage and perfect body proportions."
        clothing == "She wears " \o arch_wardrobe \o ", revealing and form-fitting. "
                    \o "The outfit shows deep cleavage and accentuates her curves."
        pose == "She stands in a " \o arch_pose \o ", exuding confidence. "
                \o "Her expression is a seductive smirk with bedroom eyes gazing at the viewer."
        framing == "Portrait shot showing upper body in three-quarter view."
        lighting == "Lit with soft key light and rim lighting creating dramatic shadows. "
                    \o "A subtle heroic glow emanates around her."
        style == "Rendered in anime illustration style with ecchi sensibilities and fantasy aesthetics."
        constraints == "No text, no watermark, no logos, no UI elements."
        prompt_parts == <<subject, appearance, clothing, pose, framing, lighting, style>>
                        \o (IF Truthy(custom_hint) THEN custom_hint ELSE <<>>)
                        \o <<constraints>>
    IN  [s |-> Join(" ", prompt_parts), exc |-> "", n |-> n]

enemy_to_prompt(name, description, archetype, element, difficulty, custom_hint, n) ==
    LET element_features == get_element_features("enemy")
        elem_features == PyGet(element_features, element, "flowing hair")
        archetype_data == PyGet(get_enemy_archetypes, archetype, EmptyDict)
        arch_creature == PyGet(archetype_data, "creature", "beautiful monster girl")
        arch_mood == PyGet(archetype_data, "mood", "dangerous and alluring")
        arch_details == PyGet(archetype_data, "details", "")
        arch_erotic == PyGet(archetype_data, "erotic_features", "exposed skin and sensual curves")
        subject == "A seductive monster girl, a " \o archetype \o " creature called " \o name
                   \o ". " \o "She is a " \o arch_creature \o " with " \o elem_features
                   \o " and beautiful detailed eyes."
        appearance == "Her figure is voluptuous with huge breasts and exposed cleavage. "
                      \o "Her monster traits enhance her sexuality: " \o arch_erotic \o "."
        details == IF arch_details # ""
                   THEN "Distinctive features include " \o arch_details \o "."
                   ELSE "She has subtle inhuman features that add to her allure."
        expression == "Her demeanor is " \o arch_mood \o ". "
                      \o "She wears a seductive smirk with bedroom eyes and a predatory gaze."
        clothing == "She is barely covered, wearing a revealing outfit that shows sideboob and underboob. "
                    \o "Her attire leaves little to imagination."
        framing == "Portrait shot showing upper body in a dynamic pose."
        lighting == "Lit with dramatic lighting in a dark atmosphere with a menacing aura."
        style == "Rendered in anime illustration style with monster musume and ecchi aesthetics."
        constraints == "No text, no watermark, no logos, no UI elements."
        prompt_parts == <<subject, appearance, details, expression, clothing, framing,
                          lighting, style>>
                        \o (IF Truthy(custom_hint) THEN custom_hint ELSE <<>>)
                        \o <<constraints>>
    IN  [s |-> Join(" ", prompt_parts), exc |-> "", n |-> n]

\* the result of a call that raises exc
Raises(exc, n) == [s |-> "", exc |-> exc, n |-> n]

\* batch_prompt_from_card_def reading the theme as card_def["theme"], which
\* raises KeyError for a card definition without one
batch_prompt_from_card_def_theme_required(card_def, n) ==
    IF "theme" \notin DOMAIN card_def THEN Raises("KeyError", n)
    ELSE IF card_def["theme"] = "hero"
    THEN hero_to_prompt(PyGet(card_def, "name", "Unknown Hero"),
                        PyGet(card_def, "description", "A mysterious hero"),
                        PyGet(card_def, "archetype", "Warrior"),
                        PyGet(card_def, "element", "physical"), NoneStr, n)
    ELSE IF card_def["theme"] = "enemy"
    THEN enemy_to_prompt(PyGet(card_def, "name", "Unknown Enemy"),
                         PyGet(card_def, "description", "A dangerous creature"),
                         "Brute", PyGet(card_def, "element", "physical"), 2, NoneStr, n)
    ELSE card_to_prompt(PyGet(card_def, "name", "Unknown Card"),
                        PyGet(card_def, "description", "A mysterious card"),
                        card_def["theme"],
                        PyGet(card_def, "element", "physical"),
                        PyGet(card_def, "rarity", "common"), NoneStr, n)

\* batch_prompt_from_card_def sending every theme but hero to the card branch
batch_prompt_from_card_def_no_enemy_route(card_def, n) ==
    LET theme == PyGet(card_def, "theme", "attack")
    IN  IF theme = "hero"
        THEN hero_to_prompt(PyGet(card_def, "name", "Unknown Hero"),
                            PyGet(card_def, "description", "A mysterious hero"),
                            PyGet(card_def, "archetype", "Warrior"),
                            PyGet(card_def, "element", "physical"), NoneStr, n)
        ELSE card_to_prompt(PyGet(card_def, "name", "Unknown Card"),
                            PyGet(card_def, "description", "A mysterious card"),
                            PyGet(card_def, "theme", "attack"),
                            PyGet(card_def, "element", "physical"),
                            PyGet(card_def, "rarity", "common"), NoneStr, n)

\* batch_prompt_from_card_def handing the custom_hint of the card definition on
\* to the prompt generators
batch_prompt_from_card_def_passes_hint(card_def, n) ==
    LET theme == PyGet(card_def, "theme", "attack")
        custom_hint == IF "custom_hint" \in DOMAIN card_def
                       THEN <<card_def["custom_hint"]>> ELSE NoneStr
        rarity_to_difficulty == [common |-> 1, uncommon |-> 2, rare |-> 3]
        difficulty == PyGet(rarity_to_difficulty, PyGet(card_def, "rarity", "common"), 2)
        generated_from == PyGet(card_def, "generatedFrom", EmptyDict)
        hinted == PyGet(PyGet(generated_from, "parameters", EmptyDict), "archetype", "")
        archetype == IF hinted # "" THEN generated_from["parameters"]["archetype"]
                     ELSE "Brute"
    IN  IF theme = "hero"
        THEN hero_to_prompt(PyGet(card_def, "name", "Unknown Hero"),
                            PyGet(card_def, "description", "A mysterious hero"),
                            PyGet(card_def, "archetype", "Warrior"),
                            PyGet(card_def, "element", "physical"), custom_hint, n)
        ELSE IF theme = "enemy"
        THEN enemy_to_prompt(PyGet(card_def, "name", "Unknown Enemy"),
                             PyGet(card_def, "description", "A dangerous creature"),
                             archetype,
                             PyGet(card_def, "element", "physical"),
                             difficulty, custom_hint, n)
        ELSE card_to_prompt(PyGet(card_def, "name", "Unknown Card"),
                            PyGet(card_def, "description", "A mysterious card"),
                            PyGet(card_def, "theme", "attack"),
                            PyGet(card_def, "element", "physical"),
                            PyGet(card_def, "rarity", "common"), custom_hint, n)

batch_prompt_from_card_def(card_def, n) ==
    LET theme == PyGet(card_def, "theme", "attack")
        rarity_to_difficulty == [common |-> 1, uncommon |-> 2, rare |-> 3]
        difficulty == PyGet(rarity_to_difficulty, PyGet(card_def, "rarity", "common"), 2)
        generated_from == PyGet(card_def, "generatedFrom", EmptyDict)
        hinted == PyGet(PyGet(generated_from, "parameters", EmptyDict), "archetype", "")
        archetype == IF hinted # "" THEN generated_from["parameters"]["archetype"]
                     ELSE "Brute"
    IN  IF theme = "hero"
        THEN hero_to_prompt(PyGet(card_def, "name", "Unknown Hero"),
                            PyGet(card_def, "description", "A mysterious hero"),
                            PyGet(card_def, "archetype", "Warrior"),
                            PyGet(card_def, "element", "physical"), NoneStr, n)
        ELSE IF theme = "enemy"
        THEN enemy_to_prompt(PyGet(card_def, "name", "Unknown Enemy"),
                             PyGet(card_def, "description", "A dangerous creature"),
                             archetype,
                             PyGet(card_def, "element", "physical"),
                             difficulty, NoneStr, n)
        ELSE card_to_prompt(PyGet(card_def, "name", "Unknown Card"),
                            PyGet(card_def, "description", "A mysterious card"),
                            PyGet(card_def, "theme", "attack"),
                            PyGet(card_def, "element", "physical"),
                            PyGet(card_def, "rarity", "common"), NoneStr, n)

-----------------------------------------------------------------------------
(* Calls of vary_phrase on bounded texts.                                  *)

\* tokens: known words in several cases and with trailing punctuation, an
\* unknown word, and a known word behind leading punctuation
VaryTokens == <<"skin", "Skin,", "SKIN", "warm!?", "steel.", "(soft)">>
\* whitespace between two tokens, and around the text
VaryGaps == {" ", "\t ", "\n"}
VaryPads == {"", " "}
\* replacement_chance, in percent
VaryChances == {0, 35, 100}

RECURSIVE TokenLists(_)
TokenLists(k) ==
    IF k = 0 THEN {<<>>}
    ELSE LET shorter == TokenLists(k - 1)
         IN  shorter \cup
             {Append(l, VaryTokens[i]) : l \in {x \in shorter : Len(x) = k - 1},
                                        i \in 1..Len(VaryTokens)}

RECURSIVE Spaced(_, _)
\* the tokens of l with gap between them
Spaced(l, gap) ==
    IF l = <<>> THEN ""
    ELSE IF Len(l) = 1 THEN l[1]
    ELSE l[1] \o gap \o Spaced(Tail(l), gap)

VaryTexts ==
    {pad \o Spaced(l, gap) \o pad : pad \in VaryPads, gap \in VaryGaps, l \in TokenLists(MaxTokens)}

Seeds == {[a |-> a, b |-> b, k |-> 0] : a \in 0..MaxSeed, b \in 0..MaxStep}

InitVary ==
    /\ req \in {[op |-> "vary_phrase", phrase |-> t, replacement_chance |-> c] :
                    t \in VaryTexts, c \in VaryChances}
    /\ out = None
    /\ pc = "call"
    /\ rng \in Seeds
    /\ config_file = [x \in {} |-> {}]
    /\ config_cache = None
    /\ ServiceIdle

VaryPhrase ==
    /\ pc = "call"
    /\ req.op = "vary_phrase"
    /\ LET r == vary_phrase(req.phrase, req.replacement_chance, rng.k)
       IN  /\ out' = r.s
           /\ rng' = [rng EXCEPT !.k = r.n]
    /\ pc' = "done"
    /\ UNCHANGED <<req, config_file, config_cache, service>>

NextVary == VaryPhrase

SpecVary == InitVary /\ [][NextVary]_vars

-----------------------------------------------------------------------------
(* Calls of the prompt functions on bounded card definitions.              *)

\* f restricted to the keys in S
Restrict(f, S) == [k \in (DOMAIN f) \cap S |-> f[k]]

CardFields ==
    {"name", "description", "theme", "element", "rarity", "archetype", "generatedFrom"}

\* the themes with a branch or pools of their own
KnownThemes == {"attack", "skill", "power", "curse", "status", "hero", "enemy"}
KnownElements == {"physical", "fire", "ice", "lightning", "void"}
KnownRarities == {"starter", "common", "uncommon", "rare"}

\* complete card definitions: every known theme and one unknown, names with one
\* keyword, two keywords, none, and braces; known and unknown elements
SampleCards ==
    { [name |-> "Kiss", description |-> "Deal 6 damage.", theme |-> "attack",
       element |-> "fire", rarity |-> "rare", archetype |-> "Mage",
       generatedFrom |-> [parameters |-> [archetype |-> "Slime"]]],
      [name |-> "Silk-Kiss", description |-> "Gain 5 block.", theme |-> "skill",
       element |-> "ice", rarity |-> "common", archetype |-> "Warrior",
       generatedFrom |-> EmptyDict],
      [name |-> "{visual}", description |-> "{content}", theme |-> "power",
       element |-> "void", rarity |-> "uncommon", archetype |-> "Rogue",
       generatedFrom |-> [parameters |-> EmptyDict]],
      [name |-> "Hex", description |-> "", theme |-> "curse",
       element |-> "aether", rarity |-> "starter", archetype |-> "Mage",
       generatedFrom |-> EmptyDict],
      [name |-> "", description |-> "Dazed.", theme |-> "status",
       element |-> "lightning", rarity |-> "mythic", archetype |-> "Mage",
       generatedFrom |-> EmptyDict],
      [name |-> "{Ember}", description |-> "A fire mage.", theme |-> "hero",
       element |-> "fire", rarity |-> "rare", archetype |-> "Mage",
       generatedFrom |-> EmptyDict],
      [name |-> "Acid Slime", description |-> "It oozes.", theme |-> "enemy",
       element |-> "void", rarity |-> "rare", archetype |-> "Mage",
       generatedFrom |-> [parameters |-> [archetype |-> "Slime"]]],
      [name |-> "Brute}", description |-> "It hits.", theme |-> "enemy",
       element |-> "aether", rarity |-> "mythic", archetype |-> "Mage",
       generatedFrom |-> [parameters |-> [archetype |-> ""]]],
      [name |-> "Lover's Touch", description |-> "Draw a card.", theme |-> "mystery",
       element |-> "physical", rarity |-> "common", archetype |-> "Mage",
       generatedFrom |-> EmptyDict] }

\* the sets of fields a card definition may carry: all, all but one, one, none
FieldSets ==
    {CardFields, {}} \cup {CardFields \ {f} : f \in CardFields} \cup {{f} : f \in CardFields}

\* the cards every set of fields is taken of: a card, a hero and an enemy
PartialCards == {c \in SampleCards : c.name \in {"Kiss", "{Ember}", "Acid Slime"}}

CardDefs == SampleCards \cup {Restrict(c, S) : c \in PartialCards, S \in FieldSets}

\* card definitions as generate_outfits.py posts them: outfits of one hero that
\* differ in id, description and custom_hint, and a card and an enemy with a hint
OutfitDefs ==
    { [id |-> "hero_sakura_casual", name |-> "Sakura",
       description |-> "Off-duty fire mage in relaxed attire", theme |-> "hero",
       archetype |-> "Mage", element |-> "fire",
       custom_hint |-> "casual_clothes, cozy"],
      [id |-> "hero_sakura_elegant", name |-> "Sakura",
       description |-> "Moonlit Blossom - elegant evening gown", theme |-> "hero",
       archetype |-> "Mage", element |-> "fire",
       custom_hint |-> "evening_gown, moonlight"],
      [id |-> "hero_luna_casual", name |-> "Luna",
       description |-> "Twilight Rest - comfortable stargazing attire", theme |-> "hero",
       archetype |-> "Mage", element |-> "ice",
       custom_hint |-> "pajamas, silk_robe"],
      [id |-> "card_strike", name |-> "Strike", description |-> "Deal 6 damage",
       theme |-> "attack", element |-> "physical", rarity |-> "common",
       custom_hint |-> "neon glow"],
      [id |-> "enemy_slime", name |-> "Acid Slime", description |-> "It oozes.",
       theme |-> "enemy", element |-> "void", rarity |-> "rare",
       custom_hint |-> "dripping, glossy"] }

\* prompts.yaml as parsed: no sections, all sections, and sections with gaps
ConfigFiles ==
    { EmptyDict,
      [element_features |->
           [hero |-> [fire |-> "flame-red hair"],
            enemy |-> [void |-> "dark purple hair"],
            card |-> [fire |-> "warm glow"]],
       hero_archetypes |->
           [Mage |-> [pose |-> "casting pose", wardrobe |-> "silk robes",
                      physical |-> "slender figure"]],
       enemy_archetypes |->
           [Slime |-> [creature |-> "slime girl", mood |-> "playful",
                       details |-> "translucent body", erotic_features |-> "glistening skin"]]],
      [element_features |-> [card |-> [fire |-> "warm {glow}"]],
       hero_archetypes |-> [Mage |-> [pose |-> "casting pose"]],
       enemy_archetypes |-> [Slime |-> [mood |-> "playful"]]] }

ExtractNames ==
    {"Kiss", "Silk-Kiss", "Lover's Touch", "Kissing Flame", "KISS of Silk", "Strike",
     "", "Skin Kiss Silk", "Painkiller"}

ElementInputs == KnownElements \cup {"aether", "", "Fire"}

\* no hint, an empty one, a plain one, one with a double space, one of known words
HintInputs == {NoneStr, <<"">>, <<"neon glow">>, <<"neon  glow">>, <<"bare skin">>}

\* themes given to card_to_prompt directly: known ones and unknown ones
ThemeInputs == {"attack", "power", "curse", "mystery", "", "Attack"}

Requests ==
    {[op |-> "batch_prompt_from_card_def", card_def |-> d] : d \in CardDefs \cup OutfitDefs}
    \cup {[op |-> "card_to_prompt", name |-> "Silk-Kiss", description |-> "Gain 5 block.",
           theme |-> t, element |-> "ice", rarity |-> "common", custom_hint |-> h] :
               t \in ThemeInputs, h \in HintInputs}
    \cup {[op |-> "card_to_prompt", name |-> "Strike", description |-> "Deal 6 damage",
           theme |-> "attack", element |-> "physical", rarity |-> r,
           custom_hint |-> NoneStr] : r \in KnownRarities}
    \cup {[op |-> "_extract_name_visuals", name |-> x] : x \in ExtractNames}
    \cup {[op |-> "compose_element_colors", element |-> x] : x \in ElementInputs}
    \cup {[op |-> "compose_element_atmosphere", element |-> x] : x \in ElementInputs}

\* whether the call reads the configuration (hero and enemy prompts do)
ReadsConfig(r) ==
    /\ r.op = "batch_prompt_from_card_def"
    /\ PyGet(r.card_def, "theme", "attack") \in {"hero", "enemy"}

Init ==
    /\ req \in Requests
    /\ out = None
    /\ pc = "call"
    /\ rng \in Seeds
    /\ config_file \in ConfigFiles
    /\ ReadsConfig(req) \/ config_file = EmptyDict
    /\ config_cache = None
    /\ ServiceIdle

BatchPromptFromCardDef ==
    /\ pc = "call"
    /\ req.op = "batch_prompt_from_card_def"
    /\ out' = batch_prompt_from_card_def(req.card_def, rng.k)
    /\ rng' = [rng EXCEPT !.k = out'.n]
    /\ config_cache' = IF ReadsConfig(req) THEN LoadConfig ELSE config_cache
    /\ pc' = "done"
    /\ UNCHANGED <<req, config_file, service>>

CardToPrompt ==
    /\ pc = "call"
    /\ req.op = "card_to_prompt"
    /\ out' = card_to_prompt(req.name, req.description, req.theme, req.element,
            req.rarity, req.custom_hint, rng.k)
    /\ rng' = [rng EXCEPT !.k = out'.n]
    /\ pc' = "done"
    /\ UNCHANGED <<req, config_file, config_cache, service>>

ExtractNameVisuals ==
    /\ pc = "call"
    /\ req.op = "_extract_name_visuals"
    /\ out' = _extract_name_visuals(req.name, rng.k)
    /\ rng' = [rng EXCEPT !.k = out'.n]
    /\ pc' = "done"
    /\ UNCHANGED <<req, config_file, config_cache, service>>

ComposeElementColors ==
    /\ pc = "call"
    /\ req.op = "compose_element_colors"
    /\ out' = compose_element_colors(req.element, rng.k)
    /\ rng' = [rng EXCEPT !.k = out'.n]
    /\ pc' = "done"
    /\ UNCHANGED <<req, config_file, config_cache, service>>

ComposeElementAtmosphere ==
    /\ pc = "call"
    /\ req.op = "compose_element_atmosphere"
    /\ out' = compose_element_atmosphere(req.element, rng.k)
    /\ rng' = [rng EXCEPT !.k = out'.n]
    /\ pc' = "done"
    /\ UNCHANGED <<req, config_file, config_cache, service>>

Next ==
    \/ BatchPromptFromCardDef
    \/ CardToPrompt
    \/ ExtractNameVisuals
    \/ ComposeElementColors
    \/ ComposeElementAtmosphere

Spec == Init /\ [][Next]_vars

-----------------------------------------------------------------------------
(* Properties of vary_phrase (SpecVary).                                   *)

VaryDone == pc = "done" /\ req.op = "vary_phrase"

InTokens == Split(req.phrase)
OutTokens == Split(out)

RECURSIVE TrailingPunct(_)
\* the longest suffix of a token made of the characters . , ; : ! ?
TrailingPunct(tok) ==
    IF tok # "" /\ Char(tok, Len(tok)) \in {".", ",", ";", ":", "!", "?"}
    THEN TrailingPunct(SubSeq(tok, 1, Len(tok) - 1)) \o Char(tok, Len(tok))
    ELSE ""

\* the token without its trailing punctuation
Stem(tok) == SubSeq(tok, 1, Len(tok) - Len(TrailingPunct(tok)))

\* the token is a known word: its stem, lower-cased, is a key of SYNONYM_MAP
IsKnown(tok) == Lower(Stem(tok)) \in DOMAIN SYNONYM_MAP

Synonyms(tok) == {SYNONYM_MAP[Lower(Stem(tok))][k] : k \in 1..Len(SYNONYM_MAP[Lower(Stem(tok))])}

\* the input is already in the form vary_phrase writes: tokens separated by
\* single spaces, nothing around them
Normalised(text) ==
    /\ \A i \in 1..Len(text) : Char(text, i) \in Whitespace => Char(text, i) = " "
    /\ \A i \in 1..(Len(text) - 1) : ~(Char(text, i) = " " /\ Char(text, i + 1) = " ")
    /\ text # "" => Char(text, 1) # " " /\ Char(text, Len(text)) # " "

\* C3 as claimed: vary_phrase(text, 0.0) returns text itself, whatever its
\* whitespace.
C3_IdentityOnEveryInput ==
    (VaryDone /\ req.replacement_chance = 0) => out = req.phrase

\* C3, amended: vary_phrase(text, 0.0) replaces no token; it returns the tokens
\* of text in order, separated by single spaces, which is text itself exactly
\* when text is already normalised.
C3_IdentityOnTokens ==
    (VaryDone /\ req.replacement_chance = 0) =>
        /\ OutTokens = InTokens
        /\ Normalised(out)
        /\ (out = req.phrase) <=> Normalised(req.phrase)

C3_Witness ==
    /\ VaryDone /\ req.replacement_chance = 0
    /\ \E i \in 1..Len(InTokens) : IsKnown(InTokens[i])
    /\ ~Normalised(req.phrase)
    /\ out # req.phrase

\* C4: vary_phrase(text, 1.0) replaces every known token by a synonym of its
\* key (capitalised or not) followed by the token's trailing punctuation, and
\* leaves every other token as it was.
C4_ReplacesEveryKnownToken ==
    (VaryDone /\ req.replacement_chance = 100) =>
        /\ Len(OutTokens) = Len(InTokens)
        /\ \A i \in 1..Len(InTokens) :
              IF IsKnown(InTokens[i])
              THEN \E syn \in Synonyms(InTokens[i]) :
                      OutTokens[i] \in {syn \o TrailingPunct(InTokens[i]),
                                        Capitalize(syn) \o TrailingPunct(InTokens[i])}
              ELSE OutTokens[i] = InTokens[i]

C4_Witness ==
    /\ VaryDone /\ req.replacement_chance = 100
    /\ Len(InTokens) = 2
    /\ IsKnown(InTokens[1]) /\ IsUpper(Char(InTokens[1], 1))
    /\ TrailingPunct(InTokens[1]) # ""
    /\ OutTokens[1] # InTokens[1]
    /\ ~IsKnown(InTokens[2]) /\ OutTokens[2] = InTokens[2]

\* C5: for every replacement chance the output has as many tokens as the input.
C5_TokenCountPreserved ==
    VaryDone => Len(OutTokens) = Len(InTokens)

C5_Witness ==
    /\ VaryDone /\ req.replacement_chance = 35
    /\ Len(InTokens) = 2
    /\ IsKnown(InTokens[1]) /\ OutTokens[1] # InTokens[1]
    /\ IsKnown(InTokens[2]) /\ OutTokens[2] = InTokens[2]

AllUpper(s) == s = Upper(s) /\ s # Lower(s)

-----------------------------------------------------------------------------
(* Properties of prompt assembly (Spec).                                   *)

Done(op) == pc = "done" /\ req.op = op

HasBrace(s) == Contains(s, "{") \/ Contains(s, "}")

StartsWith(s, prefix) == Len(s) >= Len(prefix) /\ SubSeq(s, 1, Len(prefix)) = prefix

SeqSet(seq) == {seq[i] : i \in 1..Len(seq)}

\* the attributes the prompt is assembled from, for either entry point
ThemeOf(r) ==
    IF r.op = "card_to_prompt" THEN r.theme ELSE PyGet(r.card_def, "theme", "attack")
ElementOf(r) ==
    IF r.op = "card_to_prompt" THEN r.element ELSE PyGet(r.card_def, "element", "physical")
RarityOf(r) ==
    IF r.op = "card_to_prompt" THEN r.rarity ELSE PyGet(r.card_def, "rarity", "common")

AssemblyDone == Done("batch_prompt_from_card_def") \/ Done("card_to_prompt")

ValidAttributes ==
    /\ ThemeOf(req) \in KnownThemes
    /\ ElementOf(req) \in KnownElements
    /\ RarityOf(req) \in KnownRarities

\* every string of the configuration
ConfigTexts(cfg) ==
    LET features == PyGet(cfg, "element_features", EmptyDict)
        heroes == PyGet(cfg, "hero_archetypes", EmptyDict)
        enemies == PyGet(cfg, "enemy_archetypes", EmptyDict)
    IN  UNION {{features[c][e] : e \in DOMAIN features[c]} : c \in DOMAIN features}
        \cup UNION {{heroes[a][f] : f \in DOMAIN heroes[a]} : a \in DOMAIN heroes}
        \cup UNION {{enemies[a][f] : f \in DOMAIN enemies[a]} : a \in DOMAIN enemies}

\* the archetype batch_prompt_from_card_def passes on for an enemy
EnemyArchetype(card_def) ==
    LET parameters == PyGet(PyGet(card_def, "generatedFrom", EmptyDict), "parameters", EmptyDict)
    IN  IF PyGet(parameters, "archetype", "") # "" THEN parameters["archetype"] ELSE "Brute"

\* the caller's texts that reach the prompt character for character: name,
\* archetype and configuration strings on the hero and enemy branches, the
\* custom hint on the card branch
VerbatimTexts ==
    IF ReadsConfig(req)
    THEN {PyGet(req.card_def, "name", ""), PyGet(req.card_def, "archetype", "Warrior"),
          EnemyArchetype(req.card_def)} \cup ConfigTexts(config_file)
    ELSE IF req.op = "card_to_prompt" THEN SeqSet(req.custom_hint)
    ELSE {}

\* C1 as stated: for valid attributes prompt assembly returns a non-empty
\* string in which no "{" or "}" remains.
C1_NoBraceRemains ==
    (AssemblyDone /\ ValidAttributes) =>
        out.exc = "" /\ out.s # "" /\ ~HasBrace(out.s)

\* C1: for valid attributes prompt assembly returns a non-empty string, raises
\* nothing, and every template placeholder is resolved: a brace remains in the
\* prompt only when the name, archetype, configuration string or custom hint
\* that the branch copies into it contains one.
C1_PlaceholdersResolved ==
    (AssemblyDone /\ ValidAttributes) =>
        /\ out.exc = ""
        /\ out.s # ""
        /\ HasBrace(out.s) => \E t \in VerbatimTexts : HasBrace(t)

\* a card whose name is itself a placeholder went through the card branch and
\* the prompt has no brace
C1_Witness ==
    /\ Done("batch_prompt_from_card_def")
    /\ ValidAttributes
    /\ PyGet(req.card_def, "name", "") = "{visual}"
    /\ ThemeOf(req) = "power"
    /\ out.s # ""
    /\ ~HasBrace(out.s)

\* C2 as stated: for a theme outside the known set card_to_prompt returns,
\* under the same draws, exactly the string it returns for theme "attack".
C2_UnknownThemeAsAttack ==
    (Done("card_to_prompt") /\ req.theme \notin KnownThemes) =>
        out.s = card_to_prompt(req.name, req.description, "attack", req.element,
                               req.rarity, req.custom_hint, 0).s

\* the card definition with the defaults written in for absent fields
WithDefaults(card_def) ==
    [k \in DOMAIN card_def \cup {"theme", "element", "rarity"} |->
        IF k \in DOMAIN card_def THEN card_def[k]
        ELSE IF k = "theme" THEN "attack"
        ELSE IF k = "element" THEN "physical"
        ELSE "common"]

\* C7: whatever optional fields the card definition lacks,
\* batch_prompt_from_card_def raises nothing and returns a non-empty string,
\* the one it returns when theme = attack, element = physical and
\* rarity = common are written in for the absent fields.
C7_MissingFieldsDefaulted ==
    Done("batch_prompt_from_card_def") =>
        /\ out.exc = ""
        /\ out.s # ""
        /\ out.s = batch_prompt_from_card_def(WithDefaults(req.card_def), 0).s

\* the empty card definition was turned into a prompt
C7_Witness ==
    /\ Done("batch_prompt_from_card_def")
    /\ DOMAIN req.card_def = {}
    /\ out.exc = ""
    /\ out.s # ""

\* "<primary> <connector> <accent>" over the given pools
ColorPhrases(primaries, accents) ==
    {p \o " " \o c \o " " \o a :
        p \in SeqSet(primaries), c \in SeqSet(COLOR_CONNECTORS), a \in SeqSet(accents)}

\* two or three different adjectives of the pool, joined by ", "
AtmospherePhrases(pool) ==
    LET I == 1..Len(pool)
        pairs == {t \in I \X I : t[1] # t[2]}
        triples == {t \in I \X I \X I : t[1] # t[2] /\ t[1] # t[3] /\ t[2] # t[3]}
    IN  {pool[t[1]] \o ", " \o pool[t[2]] : t \in pairs}
        \cup {pool[t[1]] \o ", " \o pool[t[2]] \o ", " \o pool[t[3]] : t \in triples}

\* C8: for an element outside the known five, compose_element_colors returns
\* "<primary> <connector> <accent>" with primary and accent from the physical
\* lists, and compose_element_atmosphere returns two or three different
\* adjectives of the physical list; both are what element "physical" gives
\* under the same draws.
C8_UnknownElementIsPhysical ==
    /\ (Done("compose_element_colors") /\ req.element \notin KnownElements) =>
           /\ out.s \in ColorPhrases(ELEMENT_COLOR_PRIMARIES["physical"],
                                     ELEMENT_COLOR_ACCENTS["physical"])
           /\ out.s = compose_element_colors("physical", 0).s
    /\ (Done("compose_element_atmosphere") /\ req.element \notin KnownElements) =>
           /\ out.s \in AtmospherePhrases(ELEMENT_ATMOSPHERE_ADJ["physical"])
           /\ out.s = compose_element_atmosphere("physical", 0).s

\* colours were composed for the unknown element "aether"
C8_Witness ==
    /\ Done("compose_element_colors")
    /\ req.element = "aether"
    /\ out.s \in ColorPhrases(ELEMENT_COLOR_PRIMARIES["physical"],
                              ELEMENT_COLOR_ACCENTS["physical"])

\* the openings of the hero and of the enemy narrative
HeroOpening == "A beautiful anime woman, a "
EnemyOpening == "A seductive monster girl, a "

\* C9: batch_prompt_from_card_def routes on theme alone.  Theme "hero" gives
\* the result of hero_to_prompt, theme "enemy" the result of enemy_to_prompt,
\* any other or a missing theme the result of card_to_prompt, each on the
\* card's fields under the same draws; the prompt opens as a hero narrative
\* exactly for theme "hero" and as an enemy narrative exactly for "enemy".
C9_RoutesOnTheme ==
    Done("batch_prompt_from_card_def") =>
        LET d == req.card_def
            theme == PyGet(d, "theme", "attack")
        IN  /\ StartsWith(out.s, HeroOpening) <=> theme = "hero"
            /\ StartsWith(out.s, EnemyOpening) <=> theme = "enemy"
            /\ theme = "hero" =>
                   out.s = hero_to_prompt(PyGet(d, "name", "Unknown Hero"),
                                          PyGet(d, "description", "A mysterious hero"),
                                          PyGet(d, "archetype", "Warrior"),
                                          PyGet(d, "element", "physical"), NoneStr, 0).s
            /\ theme = "enemy" =>
                   out.s = enemy_to_prompt(PyGet(d, "name", "Unknown Enemy"),
                                           PyGet(d, "description", "A dangerous creature"),
                                           EnemyArchetype(d),
                                           PyGet(d, "element", "physical"),
                                           IF PyGet(d, "rarity", "common") = "common" THEN 1
                                           ELSE IF d["rarity"] = "rare" THEN 3 ELSE 2,
                                           NoneStr, 0).s
            /\ theme \notin {"hero", "enemy"} =>
                   out.s = card_to_prompt(PyGet(d, "name", "Unknown Card"),
                                          PyGet(d, "description", "A mysterious card"),
                                          theme,
                                          PyGet(d, "element", "physical"),
                                          PyGet(d, "rarity", "common"), NoneStr, 0).s

\* an enemy card was routed to the enemy narrative
C9_Witness ==
    /\ Done("batch_prompt_from_card_def")
    /\ PyGet(req.card_def, "theme", "attack") = "enemy"
    /\ StartsWith(out.s, EnemyOpening)

\* C10 as stated: at most 2 visuals are kept, no two of them generated from the
\* same keyword, and the name "Kiss" yields exactly one.
C10_OneVisualPerKeyword ==
    Done("_extract_name_visuals") =>
        /\ Len(out.visuals) <= 2
        /\ \A i, j \in 1..Len(out.visuals) : i # j => out.from[i] # out.from[j]
        /\ req.name = "Kiss" => Len(out.visuals) = 1


-----------------------------------------------------------------------------
(* Claims about the sections of card_to_prompt.                            *)

\* a finished call that ran card_to_prompt, directly or through the router
CardCallDone ==
    \/ Done("card_to_prompt")
    \/ Done("batch_prompt_from_card_def") /\ ThemeOf(req) \notin {"hero", "enemy"}

\* the name card_to_prompt was called with
CardName ==
    IF req.op = "card_to_prompt" THEN req.name
    ELSE PyGet(req.card_def, "name", "Unknown Card")

\* some keyword of NSFW_VISUAL_GENERATORS is a word of the name or a substring of it
KeywordMatched(name) ==
    \E k \in 1..Len(NSFW_VISUAL_GENERATORS) :
        \/ InSeq(NSFW_VISUAL_GENERATORS[k][1], name_words(Lower(name)))
        \/ Contains(Lower(name), NSFW_VISUAL_GENERATORS[k][1])

\* s is "<adj> <noun> <verb> <target>" over the FALLBACK_VISUAL_* pools
FourPartFallback(s) ==
    \E adj \in SeqSet(FALLBACK_VISUAL_POOLS.FALLBACK_VISUAL_ADJECTIVES) :
        /\ StartsWith(s, adj \o " ")
        /\ \E noun \in SeqSet(FALLBACK_VISUAL_POOLS.FALLBACK_VISUAL_NOUNS) :
            /\ StartsWith(s, adj \o " " \o noun \o " ")
            /\ \E verb \in SeqSet(FALLBACK_VISUAL_POOLS.FALLBACK_VISUAL_VERBS) :
                /\ StartsWith(s, adj \o " " \o noun \o " " \o verb \o " ")
                /\ \E target \in SeqSet(FALLBACK_VISUAL_POOLS.FALLBACK_VISUAL_TARGETS) :
                    s = adj \o " " \o noun \o " " \o verb \o " " \o target

\* C11: in card_to_prompt the opening sentence embeds a non-empty visual; the
\* fallback branch is taken exactly when no keyword is a word or a substring
\* of the name (the empty name included), and then the visual is a four-part
\* phrase of the FALLBACK_VISUAL_* pools; otherwise it is the name visual.
C11_FallbackIffNoKeyword ==
    CardCallDone =>
        /\ out.exc = ""
        /\ out.visual_content # ""
        /\ Contains(out.scene, out.visual_content)
        /\ out.fallback <=> ~KeywordMatched(CardName)
        /\ out.fallback => FourPartFallback(out.visual_content)
        /\ ~out.fallback => out.visual_content = _extract_name_visuals(CardName, 0).s

\* the empty name takes the fallback branch
C11_Witness ==
    /\ CardCallDone
    /\ CardName = ""
    /\ out.fallback
    /\ FourPartFallback(out.visual_content)

\* the custom_hint card_to_prompt was called with (the router passes none)
CardHint == IF req.op = "card_to_prompt" THEN req.custom_hint ELSE NoneStr

\* the middle segments in the order the code lists them before the shuffle
MiddleSegments == <<out.details, out.framing, out.lighting>>

\* the order the shuffle left the middle segments in: position i of the
\* assembled middle holds segment MiddleOrder[i]
IsMiddleOrder(order) ==
    \A i \in 1..3 : out.prompt_parts[1 + i] = MiddleSegments[order[i]]

Orders3 == {order \in [1..3 -> 1..3] : \A i, j \in 1..3 : order[i] = order[j] => i = j}

\* C12: the parts card_to_prompt joins are the scene, then the three middle
\* segments details, framing and lighting in some order, each once, then the
\* style, then the custom hint when one was given and nothing else.
C12_SceneMiddleStyleHint ==
    CardCallDone =>
        /\ Len(out.prompt_parts) = (IF Truthy(CardHint) THEN 6 ELSE 5)
        /\ out.prompt_parts[1] = out.scene
        /\ \E order \in Orders3 : IsMiddleOrder(order)
        /\ out.prompt_parts[5] = out.style
        /\ Truthy(CardHint) => out.prompt_parts[6] = CardHint[1]
        /\ \A i \in 1..5 : out.prompt_parts[i] # ""

\* the six orders of the middle segments
C12_Order123 == CardCallDone /\ IsMiddleOrder(<<1, 2, 3>>)
C12_Order132 == CardCallDone /\ IsMiddleOrder(<<1, 3, 2>>)
C12_Order213 == CardCallDone /\ IsMiddleOrder(<<2, 1, 3>>)
C12_Order231 == CardCallDone /\ IsMiddleOrder(<<2, 3, 1>>)
C12_Order312 == CardCallDone /\ IsMiddleOrder(<<3, 1, 2>>)
C12_Order321 == CardCallDone /\ IsMiddleOrder(<<3, 2, 1>>)

\* a call with a hint whose middle segments came out as lighting, framing, details
C12_Witness ==
    /\ Done("card_to_prompt")
    /\ Truthy(CardHint)
    /\ IsMiddleOrder(<<3, 2, 1>>)
    /\ Len(out.prompt_parts) = 6

EndsWith(s, suffix) ==
    Len(s) >= Len(suffix) /\ SubSeq(s, Len(s) - Len(suffix) + 1, Len(s)) = suffix

\* C13 as stated: with a non-empty custom_hint the returned prompt ends with
\* the hint character for character; with None or "" nothing is appended and
\* the prompt has no trailing separator.
C13_HintVerbatim ==
    Done("card_to_prompt") =>
        IF Truthy(req.custom_hint)
        THEN EndsWith(out.s, " " \o req.custom_hint[1])
        ELSE /\ Len(out.prompt_parts) = 5
             /\ ~EndsWith(out.s, " ")

\* the part of C13 about a missing or empty hint: nothing is appended
C13_NothingAppendedWithoutHint ==
    (Done("card_to_prompt") /\ ~Truthy(req.custom_hint)) =>
        /\ Len(out.prompt_parts) = 5
        /\ ~EndsWith(out.s, " ")

\* the double space of a hint never survives the synonym pass
C13_HintWhitespaceCollapsed ==
    (Done("card_to_prompt") /\ req.custom_hint = <<"neon  glow">>) =>
        /\ ~EndsWith(out.s, "neon  glow")
        /\ EndsWith(out.s, " neon glow")

-----------------------------------------------------------------------------
(* audit_prompts.py: analyze_prompts, the variety report over a corpus of  *)
(* prompts.  A Counter or dict is the sequence of its <<key, count>> items *)
(* in insertion order.  A float is the exact fraction [num, den].          *)

DIGITS == "0123456789"

\* the characters the regular expression class \w matches
WordChars == Chars(LOWERCASE) \cup Chars(UPPERCASE) \cup Chars(DIGITS) \cup {"_"}

\* the characters the class [a-z] matches
LettersAZ == Chars(SubSeq(LOWERCASE, 1, Len(LOWERCASE) - 1))

\* whether a maximal run of \w characters starts at position i of s
RunStart(s, i) ==
    /\ Char(s, i) \in WordChars
    /\ i = 1 \/ Char(s, i - 1) \notin WordChars

\* the position after the run that starts at i
RunEnd(s, i) ==
    CHOOSE j \in (i + 1)..(Len(s) + 1) :
        /\ j = Len(s) + 1 \/ Char(s, j) \notin WordChars
        /\ \A k \in i..(j - 1) : Char(s, k) \in WordChars

\* whether \b[a-z]{4,}\b matches the run: only letters a-z, at least four
LongWord(run) ==
    /\ Len(run) >= 4
    /\ \A k \in 1..Len(run) : Char(run, k) \in LettersAZ

RECURSIVE FindWordsRange(_, _, _)
\* the matches that start in lo..hi, in order
FindWordsRange(s, lo, hi) ==
    IF lo > hi THEN <<>>
    ELSE IF lo = hi
    THEN IF RunStart(s, lo) /\ LongWord(SubSeq(s, lo, RunEnd(s, lo) - 1))
         THEN <<SubSeq(s, lo, RunEnd(s, lo) - 1)>> ELSE <<>>
    ELSE LET mid == (lo + hi) \div 2
         IN  FindWordsRange(s, lo, mid) \o FindWordsRange(s, mid + 1, hi)

\* re.findall(r"\b[a-z]{4,}\b", s)
FindWords(s) == FindWordsRange(s, 1, Len(s))

RECURSIVE Extend(_, _, _)
\* the list built by all.extend(per_prompt[i]) for i in lo..hi
Extend(per_prompt, lo, hi) ==
    IF lo > hi THEN <<>>
    ELSE IF lo = hi THEN per_prompt[lo]
    ELSE LET mid == (lo + hi) \div 2
         IN  Extend(per_prompt, lo, mid) \o Extend(per_prompt, mid + 1, hi)

\* the positions of items at which a value occurs for the first time
FirstSeen(items) == {i \in 1..Len(items) : \A j \in 1..(i - 1) : items[j] # items[i]}

\* the members of a set of positions of items, in increasing order
Ascending(items, positions) ==
    SelectSeq([i \in 1..Len(items) |-> i], LAMBDA i : i \in positions)

\* collections.Counter(items): each distinct item with its number of
\* occurrences, in the order the items are first seen
Counter(items) ==
    LET first == Ascending(items, FirstSeen(items))
    IN  [k \in 1..Len(first) |->
            <<items[first[k]],
              Cardinality({i \in 1..Len(items) : items[i] = items[first[k]]})>>]

\* the number of entries most_common puts before entry i: those with a larger
\* count, and those with the same count that were inserted earlier
Rank(counter, i) ==
    Cardinality({j \in 1..Len(counter) :
                    \/ counter[j][2] > counter[i][2]
                    \/ counter[j][2] = counter[i][2] /\ j < i})

\* Counter.most_common(n)
MostCommon(counter, n) ==
    LET rank == [i \in 1..Len(counter) |-> Rank(counter, i)]
    IN  [r \in 1..Min(n, Len(counter)) |->
            counter[CHOOSE i \in 1..Len(counter) : rank[i] = r - 1]]

\* seq[:n]
Prefix(seq, n) == SubSeq(seq, 1, Min(n, Len(seq)))

\* the items of a Counter with a count above threshold: count > num / den
Above(items, num, den) == SelectSeq(items, LAMBDA item : item[2] * den > num)

\* s.split(sep) for a one-character separator: the pieces between separators
SplitOn(s, sep) ==
    LET at == SelectSeq([i \in 1..Len(s) |-> i], LAMBDA i : Char(s, i) = sep)
    IN  [k \in 1..(Len(at) + 1) |->
            SubSeq(s, IF k = 1 THEN 1 ELSE at[k - 1] + 1,
                      IF k = Len(at) + 1 THEN Len(s) ELSE at[k] - 1)]

RECURSIVE SumRange(_, _, _)
\* sum(numbers[lo..hi])
SumRange(numbers, lo, hi) ==
    IF lo > hi THEN 0
    ELSE IF lo = hi THEN numbers[lo]
    ELSE LET mid == (lo + hi) \div 2
         IN  SumRange(numbers, lo, mid) + SumRange(numbers, mid + 1, hi)

Sum(numbers) == SumRange(numbers, 1, Len(numbers))

RECURSIVE GCD(_, _)
GCD(a, b) == IF b = 0 THEN a ELSE GCD(b, a % b)

\* the fraction num / den in lowest terms (num >= 0, den > 0)
Frac(num, den) == [num |-> num \div GCD(num, den), den |-> den \div GCD(num, den)]

\* x + y and x * 0.25 on fractions
FracAdd(x, y) == Frac(x.num * y.den + y.num * x.den, x.den * y.den)

Quarter(x) == Frac(x.num, 4 * x.den)

\* round(x, 1) for x >= 0, as a number of tenths: the nearest tenth, a tie
\* going to the even one (the rounding error of the float itself is left out)
Round1(x) ==
    LET q == (10 * x.num) \div x.den
        r == (10 * x.num) % x.den
    IN  Frac(IF 2 * r > x.den \/ (2 * r = x.den /\ q % 2 = 1) THEN q + 1 ELSE q, 10)

\* all_words: the words of four or more letters of every prompt, lower-cased
all_words(prompts) ==
    Extend([i \in 1..Len(prompts) |-> FindWords(Lower(prompts[i]))], 1, Len(prompts))

\* overused without the test against the number of prompts: the top 50 words
overused_top_only(word_counts, prompts) == MostCommon(word_counts, 50)

\* overused: of the 50 most common words, those with count > len(prompts) * 0.2
overused(word_counts, prompts) ==
    Above(MostCommon(word_counts, 50), Len(prompts), 5)

\* the trigrams of one prompt: every three consecutive lower-cased tokens
trigrams(prompt) ==
    LET words == Split(Lower(prompt))
    IN  [i \in 1..(Len(words) - 2) |->
            words[i] \o " " \o words[i + 1] \o " " \o words[i + 2]]

all_trigrams(prompts) ==
    Extend([i \in 1..Len(prompts) |-> trigrams(prompts[i])], 1, Len(prompts))

\* repeated_phrases looking at the 10 most common trigrams only
repeated_phrases_top10(trigram_counts) == Above(MostCommon(trigram_counts, 10), 3, 1)

\* repeated_phrases: of the 30 most common trigrams, those with count > 3
repeated_phrases(trigram_counts) == Above(MostCommon(trigram_counts, 30), 3, 1)

\* the sentence starts of one prompt: the first four words of each of its
\* first three sentences, where the sentence has a word
sentence_starts_of(prompt) ==
    LET sentences == Prefix(SplitOn(prompt, "."), 3)
    IN  SelectSeq([k \in 1..Len(sentences) |-> Join(" ", Prefix(Split(sentences[k]), 4))],
                  LAMBDA start : start # "")

sentence_starts(prompts) ==
    Extend([i \in 1..Len(prompts) |-> sentence_starts_of(prompts[i])], 1, Len(prompts))

\* repeated_starts: of the 20 most common sentence starts, those with count > 5
repeated_starts(start_counts) == Above(MostCommon(start_counts, 20), 5, 1)

\* lengths: the number of whitespace tokens of each prompt
lengths(prompts) == [i \in 1..Len(prompts) |-> Len(Split(prompts[i]))]

\* length_variance: sum((ln - avg) ** 2) / len(lengths), with avg = total / count
length_variance(ln) ==
    Frac(Sum([i \in 1..Len(ln) |-> (Len(ln) * ln[i] - Sum(ln)) * (Len(ln) * ln[i] - Sum(ln))]),
         Len(ln) * Len(ln) * Len(ln))

\* first_50_words: the first 50 tokens of each prompt, joined by spaces
first_50_words(prompts) ==
    [i \in 1..Len(prompts) |-> Join(" ", Prefix(Split(prompts[i]), 50))]

\* word_variety without the cap
word_variety_uncapped(unique_words, total_words) ==
    Frac(500 * unique_words, total_words)

\* min(100, (unique_words / total_words) * 500)
word_variety(unique_words, total_words) ==
    IF 500 * unique_words >= 100 * total_words THEN Frac(100, 1)
    ELSE Frac(500 * unique_words, total_words)

\* max(0, 100 - len(repeated_phrases) * 5)
phrase_variety(repeated) ==
    Frac(IF 100 - Len(repeated) * 5 > 0 THEN 100 - Len(repeated) * 5 ELSE 0, 1)

\* max(0, 100 - len(repeated_starts) * 10)
template_variety(repeated) ==
    Frac(IF 100 - Len(repeated) * 10 > 0 THEN 100 - Len(repeated) * 10 ELSE 0, 1)

\* opening_variety counting the prompts instead of the distinct openings
opening_variety_of_all(unique_openings, prompts) == Frac(Len(prompts) * 100, Len(prompts))

\* (unique_openings / len(prompts)) * 100
opening_variety(unique_openings, prompts) == Frac(unique_openings * 100, Len(prompts))

\* the sum of the four scores, each times 0.25
overall_score(word, phrase, template, opening) ==
    FracAdd(FracAdd(FracAdd(Quarter(word), Quarter(phrase)), Quarter(template)),
            Quarter(opening))

\* the dictionary analyze_prompts returns, from its local variables; the
\* unrounded scores are kept beside it in variety
report(prompts, word_counts, words, phrases, starts, openings) ==
    [exc |-> "",
     total_prompts |-> Len(prompts),
     total_words |-> Len(words),
     unique_words |-> Len(word_counts),
     word_variety_ratio |-> Frac(Len(word_counts), Len(words)),
     avg_prompt_length |-> Frac(Sum(lengths(prompts)), Len(prompts)),
     length_variance |-> length_variance(lengths(prompts)),
     overused_words |-> Prefix(overused(word_counts, prompts), 15),
     repeated_phrases |-> Prefix(phrases, 10),
     repeated_starts |-> Prefix(starts, 10),
     unique_openings |-> Cardinality(openings),
     variety |->
        [word_variety |-> word_variety(Len(word_counts), Len(words)),
         phrase_variety |-> phrase_variety(phrases),
         template_variety |-> template_variety(starts),
         opening_variety |-> opening_variety(Cardinality(openings), prompts),
         overall_score |->
            overall_score(word_variety(Len(word_counts), Len(words)),
                          phrase_variety(phrases), template_variety(starts),
                          opening_variety(Cardinality(openings), prompts))],
     scores |->
        [word_variety |-> Round1(word_variety(Len(word_counts), Len(words))),
         phrase_variety |-> Round1(phrase_variety(phrases)),
         template_variety |-> Round1(template_variety(starts)),
         opening_variety |-> Round1(opening_variety(Cardinality(openings), prompts)),
         overall |->
            Round1(overall_score(word_variety(Len(word_counts), Len(words)),
                                 phrase_variety(phrases), template_variety(starts),
                                 opening_variety(Cardinality(openings), prompts)))]]

\* the word statistics and the repetition tables of a corpus that has words
analysis(prompts, words) ==
    report(prompts, Counter(words), words,
           repeated_phrases(Counter(all_trigrams(prompts))),
           repeated_starts(Counter(sentence_starts(prompts))),
           {first_50_words(prompts)[i] : i \in 1..Len(prompts)})

\* analyze_prompts that returns an empty report for a corpus without prompts
analyze_prompts_guarded(prompts) ==
    IF Len(prompts) = 0 \/ Len(all_words(prompts)) = 0
    THEN [exc |-> "", total_prompts |-> Len(prompts)]
    ELSE analysis(prompts, all_words(prompts))

\* analyze_prompts: sum(lengths) / len(lengths) divides by zero for no prompts
\* and unique_words / total_words for prompts without a word of four letters
analyze_prompts(prompts) ==
    IF Len(prompts) = 0 THEN [exc |-> "ZeroDivisionError", line |-> 269]
    ELSE IF Len(all_words(prompts)) = 0 THEN [exc |-> "ZeroDivisionError", line |-> 277]
    ELSE analysis(prompts, all_words(prompts))

-----------------------------------------------------------------------------
(* Specification of analyze_prompts: one call on a corpus.                 *)

\* most copies of one prompt in a corpus
MaxCopies == 5

\* n copies of prompt p
Copies(p, n) == [i \in 1..n |-> p]

\* prompts: empty, without a long word, one sentence start three times, fifteen
\* distinct words, one word, one word twice, thirty-three distinct tokens
AuditPrompts ==
    { "",
      "Lit up.",
      "Soft glow. Soft glow. Soft glow.",
      "alpha bravo charlie delta echo foxtrot golf hotel india juliet kilo lima mike november oscar",
      "zulu",
      "silk silk",
      "Lit with warm amber light over bare skin, framed from a low angle while silk slides off her shoulder and candle wax drips onto the velvet sheets beneath a shattered mirror in moonlit shadow." }

\* corpora: none, copies of one prompt, and copies with another prompt before
\* or after them
Corpora ==
    {<<>>}
    \cup {Copies(p, n) : p \in AuditPrompts, n \in 1..MaxCopies}
    \cup {Copies(p, n) \o <<q>> : p \in AuditPrompts, q \in AuditPrompts, n \in 1..(MaxCopies - 1)}
    \cup {<<q>> \o Copies(p, n) : p \in AuditPrompts, q \in AuditPrompts, n \in 1..(MaxCopies - 1)}

InitAudit ==
    /\ req \in {[op |-> "analyze_prompts", prompts |-> c] : c \in Corpora}
    /\ out = None
    /\ pc = "call"
    /\ rng = [a |-> 0, b |-> 0, k |-> 0]
    /\ config_file = EmptyDict
    /\ config_cache = None
    /\ ServiceIdle

AnalyzePrompts ==
    /\ pc = "call"
    /\ req.op = "analyze_prompts"
    /\ out' = analyze_prompts(req.prompts)
    /\ pc' = "done"
    /\ UNCHANGED <<req, rng, config_file, config_cache, service>>

NextAudit == AnalyzePrompts

SpecAudit == InitAudit /\ [][NextAudit]_vars

-----------------------------------------------------------------------------
(* Claims about analyze_prompts.                                           *)

AuditDone == pc = "done" /\ req.op = "analyze_prompts"

\* analyze_prompts returned a report
Reported == AuditDone /\ out.exc = ""

\* C14 as stated: analyze_prompts returns a report, raising nothing, for
\* every corpus of fewer than 10 prompts, the empty corpus included.
C14_SmallCorpusReturns ==
    (AuditDone /\ Len(req.prompts) < 10) => out.exc = ""

\* a score lies in [0, 100]
InScoreRange(x) == 0 <= x.num /\ x.num <= 100 * x.den

\* C15: whenever analyze_prompts returns, each of word_variety,
\* phrase_variety, template_variety and opening_variety lies in [0, 100] and
\* the overall score is a quarter of their sum, so it lies in [0, 100] too;
\* the rounded scores of the report lie in the same range.
C15_ScoresInRange ==
    Reported =>
        LET v == out.variety
            total == FracAdd(FracAdd(FracAdd(v.word_variety, v.phrase_variety),
                                     v.template_variety), v.opening_variety)
        IN  /\ InScoreRange(v.word_variety)
            /\ InScoreRange(v.phrase_variety)
            /\ InScoreRange(v.template_variety)
            /\ InScoreRange(v.opening_variety)
            /\ v.overall_score = Frac(total.num, 4 * total.den)
            /\ InScoreRange(v.overall_score)
            /\ \A k \in DOMAIN out.scores : InScoreRange(out.scores[k])

\* a report whose word score is cut at 100 and whose phrase score is held at
\* 0, with an overall score strictly inside the range
C15_Witness ==
    /\ Reported
    /\ 500 * out.unique_words > 100 * out.total_words
    /\ out.variety.word_variety = Frac(100, 1)
    /\ out.variety.phrase_variety = Frac(0, 1)
    /\ out.variety.overall_score.num > 0
    /\ out.variety.overall_score.num < 100 * out.variety.overall_score.den

Reverse(seq) == [i \in 1..Len(seq) |-> seq[Len(seq) + 1 - i]]

\* C16 as stated: a permutation of the corpus (here its reversal) gives the
\* same total_words, unique_words, word_variety_ratio and the same
\* overused_words, as a set of words with their counts.
C16_PermutationInvariant ==
    Reported =>
        LET other == analyze_prompts(Reverse(req.prompts))
        IN  /\ other.exc = ""
            /\ other.total_words = out.total_words
            /\ other.unique_words = out.unique_words
            /\ other.word_variety_ratio = out.word_variety_ratio
            /\ SeqSet(other.overused_words) = SeqSet(out.overused_words)

\* the part of C16 that does not depend on the truncation: the word totals
C16_WordTotalsInvariant ==
    Reported =>
        LET other == analyze_prompts(Reverse(req.prompts))
        IN  /\ other.exc = ""
            /\ other.total_words = out.total_words
            /\ other.unique_words = out.unique_words
            /\ other.word_variety_ratio = out.word_variety_ratio

\* every prompt of the corpus is the same string
AllCopies == \A i \in 1..Len(req.prompts) : req.prompts[i] = req.prompts[1]

\* C17 as stated: for every corpus of N >= 1 copies of one prompt
\* analyze_prompts reports unique_openings = 1 and an opening_variety score
\* of (1 / N) * 100.
C17_CopiesHaveOneOpening ==
    (AuditDone /\ Len(req.prompts) >= 1 /\ AllCopies) =>
        /\ out.exc = ""
        /\ out.unique_openings = 1
        /\ out.variety.opening_variety = Frac(100, Len(req.prompts))

\* what holds of C17: when analyze_prompts returns for copies of one prompt,
\* unique_openings is 1 and opening_variety, before rounding, is 100 / N
C17_CopiesHaveOneOpeningWhenReported ==
    (Reported /\ AllCopies) =>
        /\ out.unique_openings = 1
        /\ out.variety.opening_variety = Frac(100, Len(req.prompts))
        /\ out.scores.opening_variety = Round1(Frac(100, Len(req.prompts)))

\* the number of prompts in which word occurs
PromptsContaining(word) ==
    Cardinality({i \in 1..Len(req.prompts) :
                    InSeq(word, FindWords(Lower(req.prompts[i])))})

\* C18 as stated: every word of overused_words occurs in more than 20% of the
\* prompts of the corpus.
C18_OverusedInFifthOfPrompts ==
    Reported =>
        \A k \in 1..Len(out.overused_words) :
            PromptsContaining(out.overused_words[k][1]) * 5 > Len(req.prompts)

\* the distinct trigrams that occur more than 3 times across the corpus
RepeatedTrigrams ==
    LET all == all_trigrams(req.prompts)
    IN  {all[i] : i \in {j \in 1..Len(all) :
                            Cardinality({m \in 1..Len(all) : all[m] = all[j]}) > 3}}

\* C19: phrase_variety is max(0, 100 - 5 * k) for the number k of distinct
\* trigrams that occur more than 3 times in the corpus, whatever k is, and is
\* never negative.
C19_PhraseVarietyExact ==
    Reported =>
        LET k == Cardinality(RepeatedTrigrams)
        IN  /\ out.variety.phrase_variety = Frac(IF 100 - 5 * k > 0 THEN 100 - 5 * k ELSE 0, 1)
            /\ out.variety.phrase_variety.num >= 0

\* more repeated trigrams than the 30 the code looks at, and a score of 0
C19_Witness ==
    /\ Reported
    /\ Cardinality(RepeatedTrigrams) > 30
    /\ out.variety.phrase_variety = Frac(0, 1)

-----------------------------------------------------------------------------
(* Claims about shared state.                                              *)

\* C20 as stated: prompt assembly writes no module-level variable, so after
\* any call every module-level variable of prompts.py still has its initial
\* value; for _config_cache that value is None.
C20_NoModuleLevelWrite ==
    AssemblyDone => config_cache = None

\* the write, as a step: a hero or enemy prompt stores the parsed
\* configuration in _config_cache, every other call leaves it alone
C20_OnlyConfigReadersWrite ==
    [][IF ReadsConfig(req) THEN config_cache' = config_file
       ELSE config_cache' = config_cache]_vars
-----------------------------------------------------------------------------
(* Claims about the vocabulary and the inputs of the assembled prompts.    *)

\* term occurs in s as a whole word or phrase: not inside a longer word
ContainsWord(s, term) ==
    \E i \in 1..(Len(s) - Len(term) + 1) :
        /\ SubSeq(s, i, i + Len(term) - 1) = term
        /\ i = 1 \/ Char(s, i - 1) \notin WordChars
        /\ i + Len(term) > Len(s) \/ Char(s, i + Len(term)) \notin WordChars

\* the colour terms of an element: its primaries and its accents
ColorTerms(element) ==
    SeqSet(ELEMENT_COLOR_PRIMARIES[element]) \cup SeqSet(ELEMENT_COLOR_ACCENTS[element])

\* the colour terms of the other elements that are not physical terms too
ForeignColorTerms ==
    UNION {ColorTerms(e) : e \in {"fire", "ice", "lightning", "void"}} \ ColorTerms("physical")

\* the finished call card_to_prompt("Strike", "Deal 6 damage", "attack", "physical", "common")
StrikeDone ==
    /\ Done("card_to_prompt")
    /\ req.name = "Strike"
    /\ req.rarity = "common"

\* C21: the prompt of the card Strike (attack, physical, common) contains a
\* physical primary colour phrase and contains, as a whole word or phrase, no
\* colour term of fire, ice, lightning or void that is not a physical term.
C21_StrikeOnlyPhysicalColours ==
    StrikeDone =>
        /\ \E t \in SeqSet(ELEMENT_COLOR_PRIMARIES.physical) : ContainsWord(out.s, t)
        /\ \A t \in ForeignColorTerms : ~ContainsWord(out.s, t)

\* the half of C21 the code keeps: a physical primary colour phrase is present
C21_PhysicalPrimaryPresent ==
    StrikeDone => \E t \in SeqSet(ELEMENT_COLOR_PRIMARIES.physical) : ContainsWord(out.s, t)

\* the prompt card_to_prompt returns for the finished call when only the
\* rarity is replaced: same other arguments, same random draws
WithRarity(rarity) ==
    card_to_prompt(req.name, req.description, req.theme, req.element, rarity,
                   req.custom_hint, 0)

\* C23: the rarity drives what card_to_prompt generates: for the arguments of
\* a call there are two rarity values whose prompts differ, all other
\* arguments and all random draws being equal.
C23_RarityDrivesPrompt ==
    Done("card_to_prompt") =>
        \E r1, r2 \in KnownRarities : WithRarity(r1).s # WithRarity(r2).s

\* what the code does instead: the rarity never changes the prompt, the
\* default "common" and an unknown rarity included
C23_RarityIgnored ==
    Done("card_to_prompt") =>
        \A r \in KnownRarities \cup {"mythic", ""} : WithRarity(r) = out

\* the same call made with the random stream at position n: a repeated call
\* in the same process goes on from where the stream stands, the configuration
\* stays as the first call left it
CalledAgain(n) == batch_prompt_from_card_def(req.card_def, n)

\* the random stream is not the constant one (every draw the same value)
StreamVaries == rng.b # 0

\* a complete card definition with a known theme, element and rarity
ValidCard(c) ==
    /\ DOMAIN c = CardFields
    /\ c.theme \in KnownThemes
    /\ c.element \in KnownElements
    /\ c.rarity \in KnownRarities

\* a finished assemble call on valid attributes that returned a prompt
AssembledPrompt ==
    /\ Done("batch_prompt_from_card_def")
    /\ ValidCard(req.card_def)
    /\ out.exc = ""

\* C22: repeated calls with identical input do not collapse to one string,
\* whatever the theme, hero and enemy included: under a random stream that
\* varies, the same card definition returns another string when the stream
\* stands one draw further on or where the first call left it.
C22_RepeatedCallsDiffer ==
    (AssembledPrompt /\ StreamVaries) =>
        \/ CalledAgain(1).s # out.s
        \/ CalledAgain(rng.k).s # out.s

\* the card route does vary: for every theme but hero and enemy another
\* position of the stream gives another string
C22_CardRouteVaries ==
    (AssembledPrompt /\ StreamVaries /\ ThemeOf(req) \notin {"hero", "enemy"}) =>
        CalledAgain(1).s # out.s

\* the hero and enemy routes make no random draw at all, so their string is
\* fixed by the card definition and the configuration
C22_HeroEnemyDrawNothing ==
    (AssembledPrompt /\ ThemeOf(req) \in {"hero", "enemy"}) =>
        /\ rng.k = 0
        /\ CalledAgain(1).s = out.s

\* the card definition d with its custom_hint replaced by hint
WithHint(d, hint) == [k \in DOMAIN d |-> IF k = "custom_hint" THEN hint ELSE d[k]]

\* the card definition d without a custom_hint field
WithoutHint(d) == Restrict(d, DOMAIN d \ {"custom_hint"})

\* a finished assemble call on a card definition that carries a custom_hint
HintedCallDone ==
    /\ Done("batch_prompt_from_card_def")
    /\ "custom_hint" \in DOMAIN req.card_def

\* the outfits of the same hero: same name, archetype and element
SameHero(d, e) ==
    /\ d.theme = "hero" /\ e.theme = "hero"
    /\ d.name = e.name /\ d.archetype = e.archetype /\ d.element = e.element

\* C29: the prompt batch_prompt_from_card_def builds never depends on the
\* custom_hint of the card definition: with the same random draws, another
\* hint or no hint gives the same prompt on the hero, enemy and card routes,
\* the hint text is not in the prompt, and the outfits of one hero (same name,
\* archetype and element) all get one identical prompt.
C29_HintNeverReachesPrompt ==
    HintedCallDone =>
        /\ out.exc = ""
        /\ ~Contains(out.s, req.card_def.custom_hint)
        /\ batch_prompt_from_card_def(WithoutHint(req.card_def), 0) = out
        /\ \A e \in OutfitDefs :
               batch_prompt_from_card_def(WithHint(req.card_def, e.custom_hint), 0) = out
        /\ \A e \in OutfitDefs :
               SameHero(req.card_def, e) => batch_prompt_from_card_def(e, 0).s = out.s

\* an outfit of a hero with two outfits was assembled
C29_Witness ==
    /\ HintedCallDone
    /\ req.card_def.id = "hero_sakura_elegant"
    /\ out.exc = ""
    /\ Contains(out.s, "hero named Sakura")
    /\ batch_prompt_from_card_def(
           CHOOSE e \in OutfitDefs : e.id = "hero_sakura_casual", 0).s = out.s
-----------------------------------------------------------------------------
(* generator.py: CardArtGenerator.generate called by concurrent threads on *)
(* the one generator of the process, and the ComfyUI server it talks to.   *)
(* ComfyUI executes the queued prompts one at a time and reports progress  *)
(* on the websockets that are open for the client id at that moment; a     *)
(* message sent while no websocket is open is not delivered later.         *)

\* threads that call generate() at the same time
MaxThreads == 2

Threads == 1..MaxThreads

\* the messages ComfyUI sends for a prompt; the node is <<name>>, or NoneStr
\* for the JSON null that ends an execution
ExecutingMsg(prompt_id, node) == [type |-> "executing", prompt_id |-> prompt_id, node |-> node]
ExecutionErrorMsg(prompt_id) == [type |-> "execution_error", prompt_id |-> prompt_id, node |-> NoneStr]

\* a websocket the client has not opened, or has closed
ClosedSocket == [open |-> FALSE, inbox |-> <<>>]

\* ComfyUI sends msg to every websocket open for the client id
Broadcast(msg) ==
    [t \in Threads |->
        IF sockets[t].open THEN [sockets[t] EXCEPT !.inbox = Append(@, msg)]
        ELSE sockets[t]]

\* the prompt ComfyUI executes next: the first one still queued
NextQueued ==
    CHOOSE i \in 1..Len(comfy.prompts) :
        /\ comfy.prompts[i] = "queued"
        /\ \A j \in 1..(i - 1) : comfy.prompts[j] # "queued"

Running == {i \in 1..Len(comfy.prompts) : comfy.prompts[i] = "running"}

\* wait_for_completion on one received message: the result it returns, or None
\* when the loop goes on to the next recv()
handle_message(data, prompt_id) ==
    IF data.type = "executing"
    THEN IF data.prompt_id = prompt_id /\ data.node = NoneStr
         THEN [status |-> "complete", prompt_id |-> prompt_id]
         ELSE None
    ELSE IF data.type = "execution_error"
    THEN [status |-> "error", error |-> data.prompt_id]
    ELSE None

InitGen ==
    /\ threads = [t \in Threads |-> [pc |-> "check", prompt_id |-> 0, result |-> None]]
    /\ sockets = [t \in Threads |-> ClosedSocket]
    /\ comfy \in {[up |-> u, prompts |-> <<>>] : u \in BOOLEAN}
    /\ req = None /\ out = None /\ pc = "call"
    /\ rng = [a |-> 0, b |-> 0, k |-> 0]
    /\ config_file = EmptyDict /\ config_cache = None
    /\ files = {} /\ lru = <<>> /\ groq_contacts = 0 /\ api_key = FALSE /\ seen = <<>>

genOthers == <<req, out, pc, rng, config_file, config_cache, files, lru, groq_contacts, api_key, seen>>

\* generate(): check_connection() succeeded, the workflow is built
CheckConnection(t) ==
    /\ threads[t].pc = "check"
    /\ comfy.up
    /\ threads' = [threads EXCEPT ![t].pc = "queue"]
    /\ UNCHANGED <<sockets, comfy, genOthers>>

\* generate(): check_connection() failed, RuntimeError("ComfyUI not reachable")
NotReachable(t) ==
    /\ threads[t].pc = "check"
    /\ ~comfy.up
    /\ threads' = [threads EXCEPT ![t].pc = "raised"]
    /\ UNCHANGED <<sockets, comfy, genOthers>>

\* queue_prompt(): POST /prompt, ComfyUI queues the workflow and names it
QueuePrompt(t) ==
    /\ threads[t].pc = "queue"
    /\ comfy' = [comfy EXCEPT !.prompts = Append(@, "queued")]
    /\ threads' = [threads EXCEPT ![t].pc = "connect",
                                  ![t].prompt_id = Len(comfy.prompts) + 1]
    /\ UNCHANGED <<sockets, genOthers>>

\* wait_for_completion(): websocket.create_connection
CreateConnection(t) ==
    /\ threads[t].pc = "connect"
    /\ sockets' = [sockets EXCEPT ![t] = [open |-> TRUE, inbox |-> <<>>]]
    /\ threads' = [threads EXCEPT ![t].pc = "recv"]
    /\ UNCHANGED <<comfy, genOthers>>

\* wait_for_completion(): ws.recv() returned a message; the loop returns a
\* result (and the finally clause closes the socket) or goes on
Recv(t) ==
    /\ threads[t].pc = "recv"
    /\ sockets[t].inbox # <<>>
    /\ IF handle_message(Head(sockets[t].inbox), threads[t].prompt_id) = None
       THEN /\ sockets' = [sockets EXCEPT ![t].inbox = Tail(@)]
            /\ UNCHANGED threads
       ELSE /\ sockets' = [sockets EXCEPT ![t] = ClosedSocket]
            /\ threads' = [threads EXCEPT
                  ![t].pc = "waited",
                  ![t].result = handle_message(Head(sockets[t].inbox), threads[t].prompt_id)]
    /\ UNCHANGED <<comfy, genOthers>>

\* wait_for_completion(): the timeout passed without a deciding message.  It
\* is taken only once ComfyUI is through with the prompt, so no later message
\* about it could have come.
Timeout(t) ==
    /\ threads[t].pc = "recv"
    /\ sockets[t].inbox = <<>>
    /\ comfy.prompts[threads[t].prompt_id] \in {"done", "failed"}
    /\ sockets' = [sockets EXCEPT ![t] = ClosedSocket]
    /\ threads' = [threads EXCEPT ![t].pc = "waited", ![t].result = [status |-> "timeout"]]
    /\ UNCHANGED <<comfy, genOthers>>

\* generate(): the result is complete, the images are fetched and returned
GenerateReturn(t) ==
    /\ threads[t].pc = "waited"
    /\ threads[t].result.status = "complete"
    /\ threads' = [threads EXCEPT ![t].pc = "returned"]
    /\ UNCHANGED <<sockets, comfy, genOthers>>

\* generate(): RuntimeError("Generation failed") for any other result
GenerateRaise(t) ==
    /\ threads[t].pc = "waited"
    /\ threads[t].result.status # "complete"
    /\ threads' = [threads EXCEPT ![t].pc = "raised"]
    /\ UNCHANGED <<sockets, comfy, genOthers>>

\* ComfyUI starts the next queued prompt and reports its first node
ComfyStart ==
    /\ Running = {}
    /\ \E i \in 1..Len(comfy.prompts) : comfy.prompts[i] = "queued"
    /\ comfy' = [comfy EXCEPT !.prompts[NextQueued] = "running"]
    /\ sockets' = Broadcast(ExecutingMsg(NextQueued, <<"KSampler">>))
    /\ UNCHANGED <<threads, genOthers>>

\* ComfyUI finished the running prompt: executing with node None
ComfyComplete ==
    /\ \E i \in Running :
        /\ comfy' = [comfy EXCEPT !.prompts[i] = "done"]
        /\ sockets' = Broadcast(ExecutingMsg(i, NoneStr))
    /\ UNCHANGED <<threads, genOthers>>

\* ComfyUI failed on the running prompt: execution_error
ComfyError ==
    /\ \E i \in Running :
        /\ comfy' = [comfy EXCEPT !.prompts[i] = "failed"]
        /\ sockets' = Broadcast(ExecutionErrorMsg(i))
    /\ UNCHANGED <<threads, genOthers>>

NextGen ==
    \/ \E t \in Threads : CheckConnection(t)
    \/ \E t \in Threads : NotReachable(t)
    \/ \E t \in Threads : QueuePrompt(t)
    \/ \E t \in Threads : CreateConnection(t)
    \/ \E t \in Threads : Recv(t)
    \/ \E t \in Threads : Timeout(t)
    \/ \E t \in Threads : GenerateReturn(t)
    \/ \E t \in Threads : GenerateRaise(t)
    \/ ComfyStart
    \/ ComfyComplete
    \/ ComfyError

SpecGen == InitGen /\ [][NextGen]_vars

-----------------------------------------------------------------------------
(* Claims about concurrent and racing generation requests.                 *)

\* thread t is out of wait_for_completion with a result
Waited(t) == threads[t].result # None

\* what ComfyUI did with the prompt of thread t
OwnPrompt(t) == comfy.prompts[threads[t].prompt_id]

\* C24: requests that run concurrently on the shared generator succeed or
\* fail on their own prompt only: wait_for_completion returns "complete" only
\* after the completion message of its prompt and "error" only for an
\* execution error of its prompt.
C24_OwnPromptOnly ==
    \A t \in Threads :
        Waited(t) =>
            /\ threads[t].result.status = "complete" => OwnPrompt(t) = "done"
            /\ threads[t].result.status = "error" => OwnPrompt(t) = "failed"

\* the half of C24 the code keeps: "complete" is returned for the own prompt only
C24_CompleteIsOwn ==
    \A t \in Threads :
        (Waited(t) /\ threads[t].result.status = "complete") =>
            /\ OwnPrompt(t) = "done"
            /\ threads[t].result.prompt_id = threads[t].prompt_id

\* C25: a prompt that ComfyUI executed to completion without error is never
\* reported as "timeout", in any interleaving of the execution with the
\* client's steps.
C25_CompletedNeverTimesOut ==
    \A t \in Threads :
        (Waited(t) /\ OwnPrompt(t) = "done") => threads[t].result.status # "timeout"
-----------------------------------------------------------------------------
(* batch.py: generate_for_cards.                                           *)

\* longest list of cards given to generate_for_cards
MaxCards == 3

\* what generator.save_card_art does for a card: it saves the image and
\* returns its path, or it raises
SaveOutcomes == {"saved", "raised"}

\* card.get("id", f"card_{i}") for the card at position i, counted from 0
card_id_of(card, i) == PyGet(card, "id", "card_" \o ToString(i))

\* the path save_card_art returns: output_dir / f"{card_id}.{format}"
output_path(card_id, format) == "generated/" \o card_id \o "." \o format

\* the result entry of one card, given its prompt
card_result(card_id, prompt, output_format, dry_run, outcome) ==
    IF dry_run
    THEN [card_id |-> card_id, status |-> "dry_run", prompt |-> prompt.s]
    ELSE IF outcome = "saved"
    THEN [card_id |-> card_id, status |-> "success", path |-> output_path(card_id, output_format)]
    ELSE [card_id |-> card_id, status |-> "error", error |-> outcome]

\* one turn of the loop, given the prompt built for the card: a prompt that
\* raises ends the call, a dry run calls no generator method
card_turn(acc, card_id, prompt, output_format, dry_run, outcome) ==
    IF prompt.exc # ""
    THEN [acc EXCEPT !.exc = prompt.exc, !.n = prompt.n]
    ELSE [results |-> Append(acc.results,
                             card_result(card_id, prompt, output_format, dry_run, outcome)),
          calls |-> IF dry_run THEN acc.calls
                    ELSE Append(acc.calls, [method |-> "save_card_art", card_id |-> card_id,
                                            outcome |-> outcome]),
          exc |-> "",
          n |-> prompt.n]

\* the loop leaving at the first card whose save_card_art raises
RECURSIVE for_cards_stop_on_error(_, _, _, _, _, _)
for_cards_stop_on_error(cards, outcomes, output_format, dry_run, i, acc) ==
    IF i > Len(cards) \/ acc.exc # "" THEN acc
    ELSE IF ~dry_run /\ i > 1 /\ outcomes[i - 1] = "raised" THEN acc
    ELSE for_cards_stop_on_error(cards, outcomes, output_format, dry_run, i + 1,
             card_turn(acc, card_id_of(cards[i], i - 1),
                       batch_prompt_from_card_def(cards[i], acc.n),
                       output_format, dry_run, outcomes[i]))

\* the loop of generate_for_cards from the card at position i on
RECURSIVE for_cards(_, _, _, _, _, _)
for_cards(cards, outcomes, output_format, dry_run, i, acc) ==
    IF i > Len(cards) \/ acc.exc # "" THEN acc
    ELSE for_cards(cards, outcomes, output_format, dry_run, i + 1,
             card_turn(acc, card_id_of(cards[i], i - 1),
                       batch_prompt_from_card_def(cards[i], acc.n),
                       output_format, dry_run, outcomes[i]))

\* generate_for_cards: the results, the generator methods it called, the
\* exception it let through and the position of the random stream after it
generate_for_cards(cards, outcomes, output_format, dry_run, n) ==
    for_cards(cards, outcomes, output_format, dry_run, 1,
              [results |-> <<>>, calls |-> <<>>, exc |-> "", n |-> n])

\* the cards of the game as parse_card_object reads them: string fields only,
\* with and without an id, of the card, hero and enemy routes
BatchCards ==
    { [id |-> "strike", name |-> "Strike", description |-> "Deal 6 damage",
       theme |-> "attack", element |-> "physical", rarity |-> "common"],
      [name |-> "Acid Slime", theme |-> "enemy", rarity |-> "rare"],
      [id |-> "hero_sakura", name |-> "Sakura", theme |-> "hero", element |-> "fire"] }

CardLists == UNION {[1..k -> BatchCards] : k \in 0..MaxCards}

\* the paths of the results with status success
SavedPaths(results) ==
    {results[i].path : i \in {j \in 1..Len(results) : results[j].status = "success"}}

InitBatch ==
    /\ req \in {[op |-> "generate_for_cards", cards |-> c, output_format |-> "webp",
                 dry_run |-> d] : c \in CardLists, d \in BOOLEAN}
    /\ out = None
    /\ pc = "call"
    /\ rng = [a |-> 1, b |-> 1, k |-> 0]
    /\ config_file = EmptyDict
    /\ config_cache = None
    /\ ServiceIdle

GenerateForCards ==
    /\ pc = "call"
    /\ req.op = "generate_for_cards"
    /\ \E outcomes \in [1..Len(req.cards) -> SaveOutcomes] :
           out' = generate_for_cards(req.cards, outcomes, req.output_format, req.dry_run, rng.k)
    /\ rng' = [rng EXCEPT !.k = out'.n]
    /\ config_cache' =
           IF \E i \in 1..Len(req.cards) : PyGet(req.cards[i], "theme", "attack") \in {"hero", "enemy"}
           THEN LoadConfig ELSE config_cache
    /\ files' = files \cup SavedPaths(out'.results)
    /\ pc' = "done"
    /\ UNCHANGED <<req, config_file, threads, sockets, comfy, lru, groq_contacts, api_key, seen>>

NextBatch == GenerateForCards

SpecBatch == InitBatch /\ [][NextBatch]_vars

-----------------------------------------------------------------------------
(* Claims about generate_for_cards.                                        *)

ResultStatuses == {"dry_run", "success", "error"}

\* C27: generate_for_cards returns exactly one result per input card, in input
\* order, each with status dry_run, success or error; an exception of
\* save_card_art is recorded as the error result of that card and the cards
\* after it are still processed; in a dry run no generator method is called
\* and every result has status dry_run.
C27_OneResultPerCard ==
    Done("generate_for_cards") =>
        /\ out.exc = ""
        /\ Len(out.results) = Len(req.cards)
        /\ \A i \in 1..Len(req.cards) :
            /\ out.results[i].card_id = card_id_of(req.cards[i], i - 1)
            /\ out.results[i].status \in ResultStatuses
        /\ req.dry_run =>
            /\ out.calls = <<>>
            /\ \A i \in 1..Len(req.cards) : out.results[i].status = "dry_run"
        /\ ~req.dry_run =>
            /\ Len(out.calls) = Len(req.cards)
            /\ \A i \in 1..Len(req.cards) :
                /\ out.calls[i].card_id = out.results[i].card_id
                /\ out.calls[i].outcome = "raised" <=> out.results[i].status = "error"
                /\ out.calls[i].outcome = "saved" <=> out.results[i].status = "success"

\* a card that failed between two cards that were saved
C27_Witness ==
    /\ Done("generate_for_cards")
    /\ ~req.dry_run
    /\ Len(req.cards) = MaxCards
    /\ out.results[1].status = "success"
    /\ out.results[2].status = "error"
    /\ out.results[3].status = "success"
    /\ out.results[2].card_id = "card_1"
-----------------------------------------------------------------------------
(* regenerate_all.py: main, wipe_images and the three generate_* loops.    *)
(* A file is [dir, name] with dir "generated" (GENERATED_DIR) or "public"  *)
(* (PUBLIC_DIR); the directories hold regular files only.                  *)

File(dir, name) == [dir |-> dir, name |-> name]

\* what wipe_images unlinks: *.png and *.webp of the generated directory and
\* everything but .gitkeep of the public directory
Wiped(f) ==
    \/ f.dir = "generated" /\ (EndsWith(f.name, ".png") \/ EndsWith(f.name, ".webp"))
    \/ f.dir = "public" /\ f.name # ".gitkeep"

\* wipe_images keeping the files of the public directory that are no images
wipe_images_only_images(fs) ==
    {f \in fs : ~(EndsWith(f.name, ".png") \/ EndsWith(f.name, ".webp"))}

\* the files left after wipe_images()
wipe_images(fs) == {f \in fs : ~Wiped(f)}

\* the first entry of HEROES, ENEMIES and CARDS stands for its list
RegenItems ==
    [heroes |-> [id |-> "hero_sakura", name |-> "Sakura",
                 description |-> "Cherry blossom warrior princess",
                 archetype |-> "Warrior", element |-> "physical"],
     enemies |-> [id |-> "enemy_slime", name |-> "Slime Girl", archetype |-> "Slime",
                  element |-> "physical", difficulty |-> 1],
     cards |-> [id |-> "strike", name |-> "Strike", description |-> "Deal 6 damage",
                theme |-> "attack", element |-> "physical", rarity |-> "starter"]]

\* generate_all or the flag of the category
Selected(args, category) ==
    \/ ~(args.heroes_only \/ args.enemies_only \/ args.cards_only)
    \/ category = "heroes" /\ args.heroes_only
    \/ category = "enemies" /\ args.enemies_only
    \/ category = "cards" /\ args.cards_only

\* the result entry generate_heroes, generate_enemies and generate_cards append
regen_result(id, dry_run, outcome) ==
    IF dry_run THEN [id |-> id, status |-> "dry_run"]
    ELSE IF outcome = "saved"
    THEN [id |-> id, status |-> "success", path |-> File("generated", id \o ".webp")]
    ELSE [id |-> id, status |-> "error", error |-> outcome]

\* the position of the random stream after the prompt of the category is built
regen_prompt_end(category, n) ==
    IF category = "cards"
    THEN card_to_prompt(RegenItems.cards.name, RegenItems.cards.description,
                        RegenItems.cards.theme, RegenItems.cards.element,
                        RegenItems.cards.rarity, NoneStr, n).n
    ELSE n

\* the files save_card_art wrote for the results
RegenSaved(results) ==
    {results[i].path : i \in {j \in 1..Len(results) : results[j].status = "success"}}

\* copy_to_public: every successful result is copied under its own name
copy_to_public(results) == {File("public", f.name) : f \in RegenSaved(results)}

\* the command lines of regenerate_all.py
RegenArgs ==
    [heroes_only : BOOLEAN, enemies_only : BOOLEAN, cards_only : BOOLEAN,
     dry_run : BOOLEAN, no_wipe : BOOLEAN, no_copy : BOOLEAN]

\* what the two directories hold before the run
RegenFiles ==
    { {},
      {File("generated", "strike.webp"), File("public", ".gitkeep")},
      {File("generated", "old.png"), File("generated", "strike.webp"),
       File("generated", "batch_results.json"), File("public", ".gitkeep"),
       File("public", "strike.webp"), File("public", "notes.txt")} }

NextStage == [heroes |-> "enemies", enemies |-> "cards", cards |-> "copy"]

InitRegen ==
    /\ req \in {[op |-> "regenerate_all", args |-> a, files |-> fs] :
                    a \in RegenArgs, fs \in RegenFiles}
    /\ out = [_connected |-> FALSE, all_results |-> <<>>, exit |-> 0]
    /\ pc = "call"
    /\ rng = [a |-> 1, b |-> 1, k |-> 0]
    /\ config_file = EmptyDict
    /\ config_cache = None
    /\ threads = <<>> /\ sockets = <<>>
    /\ comfy \in {[up |-> u, prompts |-> <<>>] : u \in BOOLEAN}
    /\ files = req.files
    /\ lru = <<>> /\ groq_contacts = 0 /\ api_key = FALSE /\ seen = <<>>

regenOthers == <<req, config_file, threads, sockets, comfy, lru, groq_contacts, api_key, seen>>

\* main: --dry-run skips the connection check
RegenDryRun ==
    /\ pc = "call"
    /\ req.args.dry_run
    /\ pc' = "wipe"
    /\ UNCHANGED <<out, rng, config_cache, files, regenOthers>>

\* main: check_connection() succeeded
RegenConnected ==
    /\ pc = "call"
    /\ ~req.args.dry_run
    /\ comfy.up
    /\ out' = [out EXCEPT !._connected = TRUE]
    /\ pc' = "wipe"
    /\ UNCHANGED <<rng, config_cache, files, regenOthers>>

\* main: check_connection() failed, sys.exit(1)
RegenNotConnected ==
    /\ pc = "call"
    /\ ~req.args.dry_run
    /\ ~comfy.up
    /\ out' = [out EXCEPT !.exit = 1]
    /\ pc' = "exit"
    /\ UNCHANGED <<rng, config_cache, files, regenOthers>>

\* main: wipe_images()
RegenWipe ==
    /\ pc = "wipe"
    /\ ~req.args.no_wipe /\ ~req.args.dry_run
    /\ files' = wipe_images(files)
    /\ pc' = "heroes"
    /\ UNCHANGED <<out, rng, config_cache, regenOthers>>

\* main: --no-wipe or --dry-run, nothing is deleted
RegenNoWipe ==
    /\ pc = "wipe"
    /\ req.args.no_wipe \/ req.args.dry_run
    /\ pc' = "heroes"
    /\ UNCHANGED <<out, rng, config_cache, files, regenOthers>>

\* main: generate_heroes, generate_enemies or generate_cards for a selected
\* category, whose save_card_art saves the image or raises
RegenGenerate(category) ==
    /\ pc = category
    /\ Selected(req.args, category)
    /\ \E outcome \in SaveOutcomes :
        /\ out' = [out EXCEPT !.all_results =
                       Append(@, regen_result(RegenItems[category].id, req.args.dry_run, outcome))]
        /\ files' = files \cup RegenSaved(out'.all_results)
    /\ rng' = [rng EXCEPT !.k = regen_prompt_end(category, rng.k)]
    /\ config_cache' = IF category = "cards" THEN config_cache ELSE LoadConfig
    /\ pc' = NextStage[category]
    /\ UNCHANGED regenOthers

\* main: a category the flags leave out
RegenSkip(category) ==
    /\ pc = category
    /\ ~Selected(req.args, category)
    /\ pc' = NextStage[category]
    /\ UNCHANGED <<out, rng, config_cache, files, regenOthers>>

\* main: copy_to_public(all_results) unless --dry-run or --no-copy
RegenCopy ==
    /\ pc = "copy"
    /\ files' = IF ~req.args.dry_run /\ ~req.args.no_copy
                THEN files \cup copy_to_public(out.all_results) ELSE files
    /\ pc' = "done"
    /\ UNCHANGED <<out, rng, config_cache, regenOthers>>

NextRegen ==
    \/ RegenDryRun
    \/ RegenConnected
    \/ RegenNotConnected
    \/ RegenWipe
    \/ RegenNoWipe
    \/ \E category \in {"heroes", "enemies", "cards"} : RegenGenerate(category)
    \/ \E category \in {"heroes", "enemies", "cards"} : RegenSkip(category)
    \/ RegenCopy

SpecRegen == InitRegen /\ [][NextRegen]_vars

-----------------------------------------------------------------------------
(* Claims about regenerate_all.main.                                       *)

\* the files of before the run that are gone
Deleted == req.files \ files

\* the files the run itself wrote: saved images and their public copies
Written == RegenSaved(out.all_results) \cup copy_to_public(out.all_results)

-----------------------------------------------------------------------------
(* server.py: POST /batch/start and GET /batch/{job_id}, called as         *)
(* generate_outfits.generate_outfit calls them.  out is the log of the     *)
(* exchanges, files the content of OUTPUT_DIR.                             *)

MaxRequests == 3

\* what an instance of CardArtGenerator has: the fields __init__ sets, the
\* property and the methods of the class
CardArtGeneratorAttrs ==
    {"comfyui_url", "ws_url", "output_dir", "client_id", "_connected",
     "check_connection", "is_connected", "queue_prompt", "wait_for_completion",
     "get_images", "generate", "generate_card_art", "save_card_art"}

\* the eight characters of a uuid4 that name a job
JobIds == {"1f0c9a2e", "7b44d1c0"}

BatchFileName(job_id) == "batch_" \o job_id \o ".json"

\* a results file run_batch wrote
BatchFile(job_id, results) ==
    [dir |-> "generated", name |-> BatchFileName(job_id), results |-> results]

\* start_batch_generation: reading generator.is_loaded raises AttributeError,
\* which the server answers with 500 before a job id is drawn or run_batch is
\* added to the background tasks
start_batch_generation(request, job_id) ==
    IF "is_loaded" \notin CardArtGeneratorAttrs
    THEN [status_code |-> 500, content |-> [detail |-> "Internal Server Error"],
          task |-> None]
    ELSE [status_code |-> 200,
          content |-> [job_id |-> job_id, status |-> "started",
                       total_cards |-> Len(request.cards)],
          task |-> [job_id |-> job_id, cards |-> request.cards, format |-> request.format]]

\* get_batch_status: completed with the results once the results file exists
get_batch_status(job_id, fs) ==
    IF ~\E f \in fs : f.name = BatchFileName(job_id)
    THEN [status_code |-> 200, content |-> [job_id |-> job_id, status |-> "in_progress"]]
    ELSE [status_code |-> 200,
          content |-> [job_id |-> job_id, status |-> "completed",
                       results |-> (CHOOSE f \in fs : f.name = BatchFileName(job_id)).results]]

\* the outfits a client posts, one or two to a request
PostedOutfits ==
    {d \in OutfitDefs : d.id \in {"hero_sakura_casual", "hero_luna_casual"}}

\* the bodies of POST /batch/start
BatchRequests ==
    {[cards |-> cards, format |-> format] :
        cards \in {<<>>} \cup {<<d>> : d \in PostedOutfits}
                     \cup {<<d, e>> : d \in PostedOutfits, e \in PostedOutfits},
        format \in {"png", "webp"}}

InitServer ==
    /\ req = None
    /\ out = <<>>
    /\ pc = "serving"
    /\ rng = [a |-> 1, b |-> 1, k |-> 0]
    /\ config_file = EmptyDict
    /\ config_cache = None
    /\ threads = <<>> /\ sockets = <<>> /\ comfy = None
    /\ files \in { {},
                   {BatchFile("7b44d1c0",
                              <<[card_id |-> "hero_sakura_casual", status |-> "success",
                                 path |-> "generated/hero_sakura_casual.webp"]>>)} }
    /\ lru = <<>> /\ groq_contacts = 0 /\ api_key = FALSE /\ seen = <<>>

serverOthers ==
    <<pc, rng, config_file, config_cache, sockets, comfy, lru, groq_contacts, api_key, seen>>

\* POST /batch/start
StartBatchGeneration ==
    /\ Len(out) < MaxRequests
    /\ \E request \in BatchRequests, job_id \in JobIds :
        /\ req' = [op |-> "POST /batch/start", body |-> request]
        /\ out' = Append(out, [request |-> req',
                               response |-> [status_code |-> start_batch_generation(request, job_id).status_code,
                                             content |-> start_batch_generation(request, job_id).content]])
        /\ threads' = IF start_batch_generation(request, job_id).task = None
                      THEN threads
                      ELSE Append(threads, start_batch_generation(request, job_id).task)
    /\ UNCHANGED <<files, serverOthers>>

\* GET /batch/{job_id}
GetBatchStatus ==
    /\ Len(out) < MaxRequests
    /\ \E job_id \in JobIds :
        /\ req' = [op |-> "GET /batch/{job_id}", job_id |-> job_id]
        /\ out' = Append(out, [request |-> req', response |-> get_batch_status(job_id, files)])
    /\ UNCHANGED <<threads, files, serverOthers>>

NextServer ==
    \/ StartBatchGeneration
    \/ GetBatchStatus

SpecServer == InitServer /\ [][NextServer]_vars

-----------------------------------------------------------------------------
(* Claims about the batch endpoints.                                       *)

\* the exchanges of the log that are a POST /batch/start
Starts == {i \in 1..Len(out) : out[i].request.op = "POST /batch/start"}

\* C26: POST /batch/start creates a job: it answers with a job id and the
\* status started, and run_batch is scheduled for the cards of the request, so
\* that GET /batch/{job_id} can report the job completed with one result for
\* each card.
C26_StartCreatesJob ==
    \A i \in Starts :
        /\ out[i].response.status_code = 200
        /\ out[i].response.content.status = "started"
        /\ \E j \in 1..Len(threads) : threads[j].cards = out[i].request.body.cards

\* what holds instead: no POST /batch/start is answered with a job, no
\* run_batch is ever scheduled and no results file is written, so a client
\* polling GET /batch/{job_id} for a posted job never reads completed
C26_NoJobIsEverCreated ==
    /\ \A i \in Starts : out[i].response.status_code = 500
    /\ threads = <<>>
    /\ \A f \in files : f.name # BatchFileName("1f0c9a2e")
-----------------------------------------------------------------------------
(* groq_pools.py: the five pool functions behind functools.lru_cache,      *)
(* _call_groq and refresh_pools.  lru[fn] is the cache of fn, least        *)
(* recently used entry first; a key is the tuple of arguments of the call. *)

MaxContacts == 3

PoolFunctions ==
    {"generate_skin_highlight_pool", "generate_erotic_visual_pool",
     "generate_element_colors", "generate_opening_templates",
     "generate_composition_phrases"}

\* @lru_cache(maxsize=...)
MaxSize(fn) == IF fn = "generate_element_colors" THEN 5 ELSE 1

\* the default of count
DefaultCount(fn) ==
    CASE fn = "generate_skin_highlight_pool" -> 20
      [] fn = "generate_erotic_visual_pool" -> 30
      [] fn = "generate_element_colors" -> 10
      [] fn = "generate_opening_templates" -> 20
      [] fn = "generate_composition_phrases" -> 15

\* the length a reply needs: len(phrases) >= ...
MinLen(fn) ==
    CASE fn = "generate_skin_highlight_pool" -> 5
      [] fn = "generate_erotic_visual_pool" -> 10
      [] fn = "generate_element_colors" -> 3
      [] fn = "generate_opening_templates" -> 5
      [] fn = "generate_composition_phrases" -> 5

ElementFallbacks ==
    [fire |-> <<"crimson and gold", "orange ember glow", "scarlet flame burst">>,
     ice |-> <<"arctic blue shimmer", "pale frost white", "crystalline cyan">>,
     lightning |-> <<"electric violet", "plasma white-blue", "crackling purple">>,
     void |-> <<"abyssal purple-black", "cosmic dark magenta", "shadow ink">>,
     physical |-> <<"steel grey metallic", "iron and chrome", "silver gleam">>]

\* the static pool a function returns when Groq gave nothing usable
Fallback(fn, key) ==
    CASE fn = "generate_skin_highlight_pool" ->
            <<"with soft shadows and warm highlights on skin.",
              "casting sensual shadows across bare curves.",
              "with intimate lighting dancing across exposed flesh.",
              "highlighting every curve and contour of bare skin.",
              "with provocative interplay of light and shadow on body.",
              "golden hour warmth kissing bare shoulders.",
              "rim light defining silhouette against darkness.",
              "dappled light through curtains on naked form.",
              "candlelight flickering across exposed decolletage.",
              "moonbeam silver tracing the curve of hips.">>
      [] fn = "generate_erotic_visual_pool" ->
            <<"arched back in ecstasy", "fingers tracing collarbone",
              "lips parted in anticipation", "hips tilted provocatively",
              "shoulders bare and glistening", "thighs pressed together",
              "neck exposed vulnerably", "hands gripping bedsheets",
              "body curved in invitation", "skin flushed with warmth">>
      [] fn = "generate_element_colors" ->
            IF key[1] \in DOMAIN ElementFallbacks THEN ElementFallbacks[key[1]]
            ELSE <<"magical hues">>
      [] fn = "generate_opening_templates" ->
            <<"An intimate erotic scene showing {visual}.",
              "A sensual moment unfolds: {visual}.",
              "Passion manifests as {visual}.",
              "Desire takes form in {visual}.",
              "An alluring vision of {visual}.">>
      [] fn = "generate_composition_phrases" ->
            <<"suggestive composition using", "seductive arrangement with",
              "provocative framing via", "sensual layout through",
              "alluring placement using">>

\* a JSON array of n phrases
Phrases(tag, n) == [i \in 1..n |-> tag \o ToString(i)]

\* what the request of _call_groq can end in: an exception, a text without
\* a JSON array, an array one phrase too short, and two arrays long enough
Replies(fn) ==
    { [kind |-> "exception"],
      [kind |-> "text"],
      [kind |-> "array", items |-> Phrases("amber ", MinLen(fn) - 1)],
      [kind |-> "array", items |-> Phrases("amber ", MinLen(fn))],
      [kind |-> "array", items |-> Phrases("cobalt ", MinLen(fn))] }

\* _call_groq: None without a key or after any exception, else the content
_call_groq(key_set, reply) ==
    IF ~key_set THEN None
    ELSE IF reply.kind = "exception" THEN None
    ELSE reply

\* the body of a pool function: the phrases of the reply when it holds a JSON
\* array that is long enough, else the fallback
pool_body(fn, key, result) ==
    IF result # None /\ result.kind = "array" /\ Len(result.items) >= MinLen(fn)
    THEN result.items
    ELSE Fallback(fn, key)

\* the position of key in a cache, 0 when it is not there
lru_index(cache, key) ==
    IF \E i \in 1..Len(cache) : cache[i].key = key
    THEN CHOOSE i \in 1..Len(cache) : cache[i].key = key
    ELSE 0

\* a hit makes the entry the most recently used
lru_touch(cache, key) ==
    LET i == lru_index(cache, key)
    IN  Append(SubSeq(cache, 1, i - 1) \o SubSeq(cache, i + 1, Len(cache)), cache[i])

\* a full cache that refuses the new entry
lru_insert_keep_old(cache, entry, maxsize) ==
    IF Len(cache) < maxsize THEN Append(cache, entry) ELSE cache

\* a miss stores the result; a full cache drops its least recently used entry
lru_insert(cache, entry, maxsize) ==
    IF Len(cache) < maxsize THEN Append(cache, entry)
    ELSE Append(Tail(cache), entry)

\* the argument tuples of the calls
PoolKeys(fn) ==
    IF fn = "generate_element_colors"
    THEN {<<e>> : e \in {"fire", "ice", "lightning", "void", "physical", "arcane"}}
    ELSE {<<>>, <<DefaultCount(fn)>>, <<10>>}

EmptyCaches == [fn \in PoolFunctions |-> <<>>]

\* a process calls one of the pool functions, with or without GROQ_API_KEY
InitGroq ==
    /\ req \in {[op |-> "pool", fn |-> fn] : fn \in PoolFunctions}
    /\ out = None
    /\ pc = "idle"
    /\ rng = [a |-> 1, b |-> 1, k |-> 0]
    /\ config_file = EmptyDict
    /\ config_cache = None
    /\ threads = <<>> /\ sockets = <<>> /\ comfy = None /\ files = {}
    /\ lru = EmptyCaches
    /\ groq_contacts = 0
    /\ api_key \in BOOLEAN
    /\ seen = {}

groqOthers == <<req, pc, rng, config_file, config_cache, threads, sockets, comfy, files, api_key>>

\* a call whose key is cached: lru_cache returns the stored result
CacheHit ==
    \E key \in PoolKeys(req.fn) :
        /\ lru_index(lru[req.fn], key) # 0
        /\ out' = [fn |-> req.fn, key |-> key,
                   result |-> lru[req.fn][lru_index(lru[req.fn], key)].value,
                   hit |-> TRUE, contacted |-> FALSE,
                   repeated |-> \E s \in seen : s.fn = req.fn /\ s.key = key]
        /\ lru' = [lru EXCEPT ![req.fn] = lru_touch(@, key)]
        /\ UNCHANGED <<groq_contacts, seen, groqOthers>>

\* a call whose key is not cached: the body runs and its result is stored
CacheMiss ==
    \E key \in PoolKeys(req.fn), reply \in Replies(req.fn) :
        /\ api_key => groq_contacts < MaxContacts
        /\ ~api_key => reply.kind = "exception"     \* no request is made without a key
        /\ lru_index(lru[req.fn], key) = 0
        /\ out' = [fn |-> req.fn, key |-> key,
                   result |-> pool_body(req.fn, key, _call_groq(api_key, reply)),
                   hit |-> FALSE, contacted |-> api_key,
                   repeated |-> \E s \in seen : s.fn = req.fn /\ s.key = key]
        /\ lru' = [lru EXCEPT ![req.fn] =
                       lru_insert(@, [key |-> key, value |-> out'.result], MaxSize(req.fn))]
        /\ groq_contacts' = IF api_key THEN groq_contacts + 1 ELSE groq_contacts
        /\ seen' = IF out'.repeated THEN seen
                   ELSE seen \cup {[fn |-> req.fn, key |-> key, value |-> out'.result]}
        /\ UNCHANGED groqOthers

\* refresh_pools: cache_clear() on the five functions
RefreshPools ==
    /\ lru' = EmptyCaches
    /\ seen' = {}
    /\ out' = None
    /\ UNCHANGED <<groq_contacts, groqOthers>>

NextGroq ==
    \/ CacheHit
    \/ CacheMiss
    \/ RefreshPools

SpecGroq == InitGroq /\ [][NextGroq]_vars

-----------------------------------------------------------------------------
(* Claims about the pool caches.                                           *)

\* the keys a cache holds
CachedKeys(cache) == {cache[i].key : i \in 1..Len(cache)}

\* C30 as stated: every pool is non-empty, and a call repeated with the same
\* arguments since the last refresh_pools() returns the first result without
\* contacting Groq again.
C30_CachedUntilRefresh ==
    out # None =>
        /\ Len(out.result) > 0
        /\ out.repeated =>
              /\ ~out.contacted
              /\ [fn |-> out.fn, key |-> out.key, value |-> out.result] \in seen

\* C30, amended: every pool is non-empty; a result stays cached until
\* refresh_pools() or until the function was called with more distinct argument
\* tuples than its lru_cache holds (1, and 5 for generate_element_colors), the
\* least recently used one going first; a call whose arguments are cached returns
\* the cached result without contacting Groq, any other call runs the body
\* again, contacting Groq when a key is configured.
C30_CachedUntilEvicted ==
    [][(out' # None /\ req.op = "pool") =>
        LET fn == out'.fn
            key == out'.key
            cache == lru[fn]
        IN  /\ Len(out'.result) > 0
            /\ Len(lru'[fn]) <= MaxSize(fn)
            /\ lru'[fn][Len(lru'[fn])] = [key |-> key, value |-> out'.result]
            /\ key \in CachedKeys(cache) =>
                  /\ out'.result = cache[lru_index(cache, key)].value
                  /\ groq_contacts' = groq_contacts
                  /\ CachedKeys(lru'[fn]) = CachedKeys(cache)
            /\ key \notin CachedKeys(cache) =>
                  /\ groq_contacts' = IF api_key THEN groq_contacts + 1 ELSE groq_contacts
                  /\ ~api_key => out'.result = Fallback(fn, key)
                  /\ CachedKeys(lru'[fn]) =
                        IF Len(cache) < MaxSize(fn) THEN CachedKeys(cache) \cup {key}
                        ELSE (CachedKeys(cache) \ {cache[1].key}) \cup {key}]_vars

\* a pool Groq produced is returned again from the cache: one request was
\* made for two calls with the same arguments
C30_Witness ==
    /\ out # None
    /\ api_key
    /\ out.hit /\ out.repeated /\ ~out.contacted
    /\ out.result = Phrases("cobalt ", MinLen(out.fn))
    /\ groq_contacts = 1
    /\ [fn |-> out.fn, key |-> out.key, value |-> out.result] \in seen
=============================================================================
